---- MODULE Spec2Model ----
(***************************************************************************)
(* Osmia bicornis life-cycle model (ALMaSS): the daily step of one         *)
(* developing individual (Egg, Larva, Prepupa, Pupa, InCocoon), its nest,  *)
(* and the population manager's daily DoFirst / DoLast.                    *)
(*                                                                         *)
(* Arithmetic is fixed point.  Temperatures and degree-day sums are in     *)
(* tenths of a degree (20.0 C is 200, 86 DD is 860).  Uniform draws of     *)
(* g_rand_uni_fnc() are in 1/10000.  Prepupal development rates are in     *)
(* 1/1000000000 of a day (the nine decimals of the table); a prepupa's     *)
(* target is in 1/10000 of a day and its day counter is held in two parts, *)
(* m_AgeDegrees in 1/10000 of a day and m_AgeDegreesLow, the remainder     *)
(* below that, in 1/1000000000 of a day.  Where the code's double          *)
(* arithmetic does not give the decimal result (a comparison of two values *)
(* that are equal on paper), the outcome of the IEEE-754 computation on    *)
(* the doubles nearest to the decimal inputs is tabulated.                 *)
(***************************************************************************)
EXTENDS Integers, Sequences, FiniteSets, TLC

(* ------------------------------------------------------------------ *)
(* Configuration values (defaults of the cfg_Osmia... variables)       *)
(* ------------------------------------------------------------------ *)
\* cfg_OsmiaEggDevelTotalDD 86.0, in tenths of a degree-day
m_OsmiaEggDevelTotalDD == 860
\* cfg_OsmiaEggDevelThreshold 0.0
m_OsmiaEggDevelThreshold == 0
\* cfg_OsmiaLarvaDevelTotalDD 422
m_OsmiaLarvaDevelTotalDD == 4220
\* cfg_OsmiaLarvaDevelThreshold 4.5
m_OsmiaLarvaDevelThreshold == 45
\* cfg_OsmiaPupaDevelTotalDD 570
m_OsmiaPupaDevelTotalDD == 5700
\* cfg_OsmiaPupaDevelThreshold 1.1
m_OsmiaPupaDevelThreshold == 11
\* cfg_OsmiaInCocoonOverwinteringTempThreshold 0.0
m_OsmiaInCocoonOverwinteringTempThreshold == 0
\* cfg_OsmiaInCocoonEmergenceTempThreshold 5.0
m_OsmiaInCocoonEmergenceTempThreshold == 50
\* cfg_OsmiaInCocoonPrewinteringTempThreshold 15.0
m_OsmiaInCocoonPrewinteringTempThreshold == 150
\* cfg_OsmiaPrepupaDevelTotalDays 45, in 1/10000 day
m_OsmiaPrepupaDevelTotalDays == 450000
\* cfg_OsmiaInCocoonEmergCountConst 35.4819, in 1/10000
m_OsmiaInCocoonEmergCountConst == 354819
\* cfg_OsmiaInCocoonEmergCountSlope -0.0147, in 1/10000 per degree-day
m_OsmiaInCocoonEmergCountSlope == -147
\* cfg_OsmiaEggDailyMORT 0.0014, in 1/10000
m_DailyDevelopmentMortEggs == 14
\* cfg_OsmiaLarvaDailyMORT 0.0014
m_DailyDevelopmentMortLarvae == 14
\* cfg_OsmiaPrepupaDailyMORT 0.003
m_DailyDevelopmentMortPrepupae == 30
\* cfg_OsmiaPupaDailyMORT 0.003
m_DailyDevelopmentMortPupae == 30
\* cfg_OsmiaInCocoonWinterMortConst -4.63, in 1/1000
m_OsmiaInCocoonWinterMortConst == -4630
\* cfg_OsmiaInCocoonWinterMortSlope 0.05 per degree-day, i.e. 5/1000 per tenth
m_OsmiaInCocoonWinterMortSlope == 5
\* SetAgeDegrees(2000) of every seeded cocoon at the end of the constructor
SeededAgeDegrees == 20000
\* cfg_OsmiaOverwinterDegreeDaysInitialSimu 320, sp->overwintering_degree_days
\* of a seeded cocoon
cfg_OsmiaOverwinterDegreeDaysInitialSimu == 3200
\* Osmia_InCocoon constructor: m_emergencecounter = 99999
InitialEmergenceCounter == 99999
\* cfg_OsmiaFemaleMassFromProvMassSlope 0.25, in hundredths
m_OsmiaFemaleMassFromProvMassSlope == 25
\* cfg_OsmiaFemaleMassFromProvMassConst 4.00 mg, in hundredths of a mg
m_OsmiaFemaleMassFromProvMassConst == 400
\* cfg_OsmiaFemaleMassMin 25.0 mg and cfg_OsmiaFemaleMassMax 200.0 mg
cfg_OsmiaFemaleMassMin == 2500
cfg_OsmiaFemaleMassMax == 20000
\* struct_Osmia::overwintering_degree_days default 0.0
overwintering_degree_days == 0

\* Day-in-year of the first day of the month (ALMaSS calendar, January is 0)
March == 59
June == 151
September == 243
DaysInYear == 365

\* m_PrePupalDevelRates: development per day at 0..41 C, in 1/1000000000
\* day (cfg_OsmiaPrepupalDevelRates, all nine decimals)
m_PrePupalDevelRates ==
  << 118180491, 128062924, 139167698, 151690375, 165863251, 181962547,
     200316654, 221315209, 245418359, 273164807, 305175879, 342150483,
     384842052, 434002716, 490272059, 553979475, 624826380, 701432201,
     780791977, 857828943, 925409524, 975268990, 1000000000, 995492173,
     962516840, 906417910, 835121012, 756712977, 677752358, 602659522,
     533890110, 472441557, 418380352, 371255655, 330377543, 294984821,
     264336547, 237755941, 214646732, 194494708, 176862031, 161378614 >>

\* m_AgeDegrees++ of a prepupa: one day, in 1/10000 day
PrepupalDay == 10000
\* double Osmia_Base::m_TempToday = -9999, until the first DoFirst
UnsetTemp == -99990

(* ------------------------------------------------------------------ *)
(* Bounds of the exploration                                           *)
(* ------------------------------------------------------------------ *)
\* Daily mean temperatures offered by the weather: -2.0, 5.0 and 20.0 C
Temps == {-20, 50, 200}
\* Outcomes of g_rand_uni_fnc(), in 1/10000
UniformDraws == {0, 14, 30, 5000}
\* Outcomes of g_rand_uni_fnc() for the mass of a seeded cocoon
SeedDraws == {0, 5000}
\* Provision masses of the cells in which eggs are laid: 100 and 300 mg
ProvisionMasses == {10000, 30000}
\* Largest degree-day sum (whole degree-days) of an egg put to one day of
\* development on its own
MaxEggTrialDD == 86
\* Number of simulated days for which an egg is followed to emergence
MaxLifeDays == 330
\* Number of simulated days for which a seeded overwintering adult is
\* followed, and for which one that eclosed in late summer is
MaxSimDays == 430
MaxEclosedDays == 300
\* Number of simulated days for which a laid egg is followed
MaxDevDays == 120
\* Day of the year on which a tracked adult ecloses into its cocoon
EclosionDay == 223
\* Day of the first year on which a tracked egg is laid
LayDay == 152
\* Day after September 1st on which the autumn weather may change
CoolingOffset == 10
\* Largest pre-wintering degree-day sum tried on the mortality function
MaxTrialDD == 150
\* Largest nest aspect delay (days)
MaxAspectDelay == 1

VARIABLES
  \* population manager and scheduler
  pc, today, year, m_TempToday, m_FlyingWeather,
  m_PrePupalDevelDaysToday, m_PreWinteringEndFlag, m_OverWinterEndFlag, tempHist,
  \* unassigned: the members of the manager that nothing has assigned
  \* since operator new; the value of such a member is whatever the heap
  \* held, and the variable of its name holds a stand-in for it
  unassigned,
  \* the tracked individual; m_AgeUnset: its m_Age was copied from a never
  \* assigned struct_Osmia::age, so the int it holds is any int plus the
  \* days counted in m_Age
  stage, m_CurrentOState, m_StepDone, m_CurrentStateNo,
  m_Age, m_AgeUnset, m_AgeDegrees, m_AgeDegreesLow, m_DDPrewinter, m_emergencecounter,
  m_Sex, m_Mass, m_ParasitoidStatus, m_myOsmiaPrepupaDevelTotalDays,
  \* its nest
  m_isOpen, m_aspectdelay, inNest,
  \* observation of the run
  simDay, bornDay, mortTestsToday, developsToday,
  wmTests, wmResult, readyCount, counterSets, emergeCalls, trialDraw,
  sealedAtLaying, runLength,
  \* the cell list of one nest and the objects that occupy or occupied it
  m_cells, objStage, eggsLaid, cocoonsSeeded, lastOp,
  \* worker threads of the parallel Step loop and the nest's lock
  tpc, tobj, m_cell_lock, lockSite, mutating,
  \* one habitat polygon: its lock, nest list and capacity counters
  polyLock, m_NestList, m_CurrentNestCount, m_MaxNests, toSeed, nestsMade,
  \* one cell of the female density grid
  m_FemaleDensityGrid, treg, gridOps,
  \* the static parameters of the classes and the manager's rate table
  staticParams,
  \* one adult female: her state, egg counters, nest search and nests
  femState, m_EggsToLay, m_EggsThisNest, m_ToDisperse, nestFindAttempts,
  m_OurNest, nestIsOpen, eggLoad, eggsLaidInLife,
  \* her forage patch
  m_ForageLoc, patchPollen, patchPollenAtSelection, forageReturn, forageDay

mgrVars == << pc, today, year, m_TempToday, m_FlyingWeather,
              m_PrePupalDevelDaysToday, m_PreWinteringEndFlag, m_OverWinterEndFlag, tempHist,
              unassigned >>

\* The day values the constructor does not assign: int m_FlyingWeather
\* and double m_PrePupalDevelDaysToday are first assigned by DoFirst
DayValueMembers == {"m_FlyingWeather", "m_PrePupalDevelDaysToday"}
\* The seasonal flags, which the constructor assigns after Init()
SeasonFlagMembers == {"m_PreWinteringEndFlag", "m_OverWinterEndFlag"}
indVars == << stage, m_CurrentOState, m_StepDone, m_CurrentStateNo,
              m_Age, m_AgeUnset, m_AgeDegrees, m_AgeDegreesLow, m_DDPrewinter,
              m_emergencecounter,
              m_Sex, m_Mass, m_ParasitoidStatus,
              m_myOsmiaPrepupaDevelTotalDays >>
nestVars == << m_isOpen, m_aspectdelay, inNest >>
obsVars == << simDay, bornDay, mortTestsToday, developsToday,
              wmTests, wmResult, readyCount, counterSets, emergeCalls,
              trialDraw, sealedAtLaying, runLength >>
cellVars == << m_cells, objStage, eggsLaid, cocoonsSeeded, lastOp >>
threadVars == << tpc, tobj, m_cell_lock, lockSite, mutating >>
polyVars == << polyLock, m_NestList, m_CurrentNestCount, m_MaxNests,
               toSeed, nestsMade >>
gridVars == << m_FemaleDensityGrid, treg, gridOps >>
cfgVars == << staticParams >>
femVars == << femState, m_EggsToLay, m_EggsThisNest, m_ToDisperse,
              nestFindAttempts, m_OurNest, nestIsOpen, eggLoad,
              eggsLaidInLife >>
forageVars == << m_ForageLoc, patchPollen, patchPollenAtSelection,
                 forageReturn, forageDay >>
popVars == << cellVars, threadVars, polyVars, gridVars, cfgVars, femVars,
              forageVars >>
vars == << mgrVars, indVars, nestVars, obsVars, popVars >>

(* ------------------------------------------------------------------ *)
(* Arithmetic helpers                                                  *)
(* ------------------------------------------------------------------ *)
\* C++ conversion double -> int of n/d: truncation toward zero
TruncDiv(n, d) == IF n >= 0 THEN n \div d ELSE -((-n) \div d)

\* The tracked object is still in the simulation (KillThis not yet called)
Alive == m_CurrentStateNo # -1

(* ------------------------------------------------------------------ *)
(* Daily mortality tests: g_rand_uni_fnc() < daily mortality           *)
(* ------------------------------------------------------------------ *)
Osmia_Egg_DailyMortality(u) == u < m_DailyDevelopmentMortEggs
Osmia_Larva_DailyMortality(u) == u < m_DailyDevelopmentMortLarvae
Osmia_Prepupa_DailyMortality(u) == u < m_DailyDevelopmentMortPrepupae
Osmia_Pupa_DailyMortality(u) == u < m_DailyDevelopmentMortPupae

(* ------------------------------------------------------------------ *)
(* st_Develop of the four developing stages.  Each returns the next    *)
(* behavioural state and the new field values; tests and accs count    *)
(* the mortality tests and accumulations the call performed.           *)
(* ------------------------------------------------------------------ *)
DevelopDied ==
  [next |-> "Die", m_Age |-> m_Age, m_AgeDegrees |-> m_AgeDegrees,
   m_AgeDegreesLow |-> m_AgeDegreesLow, tests |-> 1, accs |-> 0]

\* Osmia_Egg::st_Develop: the mortality test is skipped while the nest is
\* open; ageing and degree-day accumulation are not.
Osmia_Egg_st_Develop_AddsBelowThreshold(u) ==
  IF (~m_isOpen) /\ Osmia_Egg_DailyMortality(u)
  THEN DevelopDied
  ELSE LET DD == m_TempToday - m_OsmiaEggDevelThreshold
           ad == m_AgeDegrees + DD
       IN  [next |-> IF ad > m_OsmiaEggDevelTotalDD
                     THEN "NextStage" ELSE "Develop",
            m_Age |-> m_Age + 1, m_AgeDegrees |-> ad,
            m_AgeDegreesLow |-> m_AgeDegreesLow,
            tests |-> IF m_isOpen THEN 0 ELSE 1, accs |-> 1]
Osmia_Egg_st_Develop(u) ==
  IF (~m_isOpen) /\ Osmia_Egg_DailyMortality(u)
  THEN DevelopDied
  ELSE LET DD == m_TempToday - m_OsmiaEggDevelThreshold
           ad == IF DD > 0 THEN m_AgeDegrees + DD ELSE m_AgeDegrees
       IN  [next |-> IF ad > m_OsmiaEggDevelTotalDD
                     THEN "NextStage" ELSE "Develop",
            m_Age |-> m_Age + 1, m_AgeDegrees |-> ad,
            m_AgeDegreesLow |-> m_AgeDegreesLow,
            tests |-> IF m_isOpen THEN 0 ELSE 1, accs |-> 1]

\* Osmia_Larva::st_Develop: same shape as the egg
Osmia_Larva_st_Develop(u) ==
  IF (~m_isOpen) /\ Osmia_Larva_DailyMortality(u)
  THEN DevelopDied
  ELSE LET DD == m_TempToday - m_OsmiaLarvaDevelThreshold
           ad == IF DD > 0 THEN m_AgeDegrees + DD ELSE m_AgeDegrees
       IN  [next |-> IF ad > m_OsmiaLarvaDevelTotalDD
                     THEN "NextStage" ELSE "Develop",
            m_Age |-> m_Age + 1, m_AgeDegrees |-> ad,
            m_AgeDegreesLow |-> m_AgeDegreesLow,
            tests |-> IF m_isOpen THEN 0 ELSE 1, accs |-> 1]

\* m_AgeDegrees += GetPrePupalDevelDays() on the two parts of the counter
\* (a_high in 1/10000 day, a_low and a_rate in 1/1000000000 day)
PrepupalCounterAdd(a_high, a_low, a_rate) ==
  [high |-> a_high + ((a_low + a_rate) \div 100000),
   low |-> (a_low + a_rate) % 100000]

\* counter > target, the target being a whole number of 1/10000 day
PrepupalCounterAbove(a_counter, a_target) ==
  \/ a_counter.high > a_target
  \/ a_counter.high = a_target /\ a_counter.low > 0

\* Osmia_Prepupa::st_Develop: adds today's rate, compares, then the
\* post-increment adds one more day-unit (m_AgeDegrees++)
Osmia_Prepupa_st_Develop(u) ==
  IF Osmia_Prepupa_DailyMortality(u)
  THEN DevelopDied
  ELSE LET ad == PrepupalCounterAdd(m_AgeDegrees, m_AgeDegreesLow,
                                    m_PrePupalDevelDaysToday)
       IN  [next |-> IF PrepupalCounterAbove(ad,
                                             m_myOsmiaPrepupaDevelTotalDays)
                     THEN "NextStage" ELSE "Develop",
            m_Age |-> m_Age + 1, m_AgeDegrees |-> ad.high + PrepupalDay,
            m_AgeDegreesLow |-> ad.low,
            tests |-> 1, accs |-> 1]

\* Osmia_Pupa::st_Develop: no look at the nest at all
Osmia_Pupa_st_Develop(u) ==
  IF Osmia_Pupa_DailyMortality(u)
  THEN DevelopDied
  ELSE LET DD == m_TempToday - m_OsmiaPupaDevelThreshold
           ad == IF DD > 0 THEN m_AgeDegrees + DD ELSE m_AgeDegrees
       IN  [next |-> IF ad > m_OsmiaPupaDevelTotalDD
                     THEN "NextStage" ELSE "Develop",
            m_Age |-> m_Age + 1, m_AgeDegrees |-> ad,
            m_AgeDegreesLow |-> m_AgeDegreesLow,
            tests |-> 1, accs |-> 1]

\* Osmia_Prepupa constructor: individual development time, the nominal
\* total plus 0..20% minus 10%, u being the uniform draw (in 1/10000, so
\* that 45 * 0.2 * u is a whole number of 1/10000 day)
PrepupaDevelTotalDays(u) ==
  m_OsmiaPrepupaDevelTotalDays
    + (((m_OsmiaPrepupaDevelTotalDays \div 10000) * 2 * u) \div 10)
    - (m_OsmiaPrepupaDevelTotalDays \div 10)

\* Outcomes of g_rand_uni_fnc() in the Osmia_Prepupa constructor, which
\* the constructors of Osmia_Pupa, Osmia_InCocoon and Osmia_Female run too
PrepupaDraws == {950, 5000}
PrepupaTargets == {PrepupaDevelTotalDays(u) : u \in PrepupaDraws}

(* ------------------------------------------------------------------ *)
(* Overwintering adult in the cocoon                                   *)
(* ------------------------------------------------------------------ *)
\* Pre-wintering sums (tenths) at which slope*DD + const is a whole
\* number in exact arithmetic and the double-precision result lies just
\* above it: 172.6, 192.6, ... 712.6 degree-days, 252.6 excepted
WinterMortRoundsUp == {1726 + 200 * k : k \in 0 .. 27} \ {2526}

\* Osmia_InCocoon::WinterMortality: g_random_fnc(100) < slope*DD + const,
\* r being the integer draw 0..99 and dd the pre-wintering sum in tenths;
\* the comparison is the one of the doubles
WinterMortality(r, dd) ==
  LET raw == m_OsmiaInCocoonWinterMortSlope * dd
               + m_OsmiaInCocoonWinterMortConst
  IN  \/ r * 1000 < raw
      \/ r * 1000 = raw /\ dd \in WinterMortRoundsUp

\* int(EmergCountConst + EmergCountSlope * m_AgeDegrees)
EmergCountLinear(ad) ==
  TruncDiv(m_OsmiaInCocoonEmergCountConst * 10
             + m_OsmiaInCocoonEmergCountSlope * ad, 100000)

\* Outcomes offered for m_emergenceday.Geti() (DISCRETE over 0..10)
EmergenceDays == {0, 10}
\* Outcomes of g_random_fnc(100)
PercentDraws == 0 .. 99

\* The fields st_Develop leaves as they are, with the age advanced
CocoonAged ==
  [next |-> "Develop", m_Age |-> m_Age + 1, m_AgeDegrees |-> m_AgeDegrees,
   m_DDPrewinter |-> m_DDPrewinter, m_emergencecounter |-> m_emergencecounter,
   wmTests |-> 0, wmResult |-> "none", sets |-> 0, ready |-> 0]

\* The emergence counter has dropped below 1: the winter mortality test
\* decides between death and emergence
ReadinessOutcome_NoTest(r, c) ==
  [CocoonAged EXCEPT
     !.m_emergencecounter = c, !.ready = 1, !.next = "NextStage"]
ReadinessOutcome(r, c) ==
  [CocoonAged EXCEPT
     !.m_emergencecounter = c,
     !.ready = 1,
     !.wmTests = 1,
     !.wmResult = IF WinterMortality(r, m_DDPrewinter)
                  THEN "died" ELSE "passed",
     !.next = IF WinterMortality(r, m_DDPrewinter)
              THEN "Die" ELSE "NextStage"]

\* The pre-emergence branch on a day other than March+1 that is at least
\* as warm as the emergence threshold: --m_emergencecounter < 1, then the
\* late-season cutoff
CounterDecrement(r) ==
  LET c == m_emergencecounter - 1
  IN  IF c < 1
      THEN ReadinessOutcome(r, c)
      ELSE IF today = June - 1
           THEN [CocoonAged EXCEPT !.m_emergencecounter = c, !.next = "Die"]
           ELSE [CocoonAged EXCEPT !.m_emergencecounter = c]

\* Osmia_InCocoon::st_Develop; r is the draw of g_random_fnc(100) and g the
\* draw of m_emergenceday.Geti(), each used only on the branch that makes it
Osmia_InCocoon_st_Develop(r, g) ==
  IF m_PreWinteringEndFlag
  THEN IF ~m_OverWinterEndFlag
       THEN LET DD == m_TempToday - m_OsmiaInCocoonOverwinteringTempThreshold
            IN  IF DD > 0
                THEN [CocoonAged EXCEPT !.m_AgeDegrees = m_AgeDegrees + DD]
                ELSE CocoonAged
       ELSE IF today = March + 1
            THEN [CocoonAged EXCEPT
                    !.m_emergencecounter =
                        EmergCountLinear(m_AgeDegrees) + g + m_aspectdelay,
                    !.sets = 1]
            ELSE IF m_TempToday >= m_OsmiaInCocoonEmergenceTempThreshold
                 THEN CounterDecrement(r)
                 ELSE CocoonAged
  ELSE IF m_TempToday > m_OsmiaInCocoonPrewinteringTempThreshold
       THEN [CocoonAged EXCEPT
               !.m_DDPrewinter = m_DDPrewinter + (m_TempToday
                                  - m_OsmiaInCocoonPrewinteringTempThreshold)]
       ELSE CocoonAged

(* ------------------------------------------------------------------ *)
(* Population manager                                                  *)
(* ------------------------------------------------------------------ *)
\* int(floor(temp + 0.5)) clamped to the table's 0..41 C
PrePupalTempIndex(t) ==
  LET i == (t + 5) \div 10
  IN  IF i < 0 THEN 0 ELSE IF i > 41 THEN 41 ELSE i

\* Hours of flying weather the weather source reports for a day of
\* temperature t: none on a cold day, a working day's worth on a warm one
GetFlyingHours(t) == IF t >= 100 THEN 8 ELSE 0

\* Osmia_Nest_Manager::UpdateOsmiaNesting, called by DoFirst and by the
\* constructor with no polygon lock taken by the caller.  It has no body in
\* the sources; the comment of DoFirst has it check the status of the
\* nests, update the polygon-level nest counts and remove completed and
\* abandoned nests: any of the polygon's nests may go, and the counter is
\* either lowered by one for each of them or counted anew from the list
UpdateOsmiaNesting ==
  /\ \E gone \in SUBSET m_NestList :
        /\ m_NestList' = m_NestList \ gone
        /\ m_CurrentNestCount' \in
              { m_CurrentNestCount - Cardinality(gone),
                Cardinality(m_NestList \ gone) }
  /\ UNCHANGED m_MaxNests

\* Osmia_Population_Manager::ClearDensityGrid: every cell is set to 0, so
\* the updates counted since the last reset start again at 0
ClearDensityGrid ==
  /\ m_FemaleDensityGrid' = 0
  /\ gridOps' = 0

\* Osmia_Population_Manager::DoFirst: publish today's temperature to the
\* individuals, update the nest manager, clear the density grid and look
\* up today's prepupal development rate
DoFirst_NoForageHours(t) ==
  /\ m_TempToday' = t
  /\ UNCHANGED m_FlyingWeather
  /\ unassigned' = unassigned \ {"m_PrePupalDevelDaysToday"}
  /\ UpdateOsmiaNesting
  /\ ClearDensityGrid
  /\ m_PrePupalDevelDaysToday' = m_PrePupalDevelRates[PrePupalTempIndex(t) + 1]
DoFirst(t) ==
  /\ m_TempToday' = t
  /\ m_FlyingWeather' = GetFlyingHours(t)
  /\ unassigned' = unassigned \ DayValueMembers
  /\ UpdateOsmiaNesting
  /\ ClearDensityGrid
  /\ m_PrePupalDevelDaysToday' = m_PrePupalDevelRates[PrePupalTempIndex(t) + 1]

\* What DoFirst leaves alone of the nests, threads, polygon and grid
DoFirstFrame ==
  UNCHANGED << cellVars, threadVars, polyLock, toSeed, nestsMade, treg,
               cfgVars, femVars, forageVars >>

\* Temperature n days back (n = 0 is today); tempHist holds the previous
\* days, most recent first
SupplyTempPeriod(n) == IF n = 0 THEN m_TempToday ELSE tempHist[n]

\* a - b > 1.0 and a - b >= 3.0 on the doubles nearest to the
\* temperatures a and b (tenths, between -50.0 and 60.0 C): when a and b
\* are exactly 1.0 or 3.0 apart the rounded difference decides, and it
\* lies above 1.0 for the b of OneApartRoundsUp and below 3.0 for the b of
\* ThreeApartRoundsDown
OneApartRoundsUp ==
  {-327, -322, -166, -161, -88, -83, -49, -44, -27, -22, 12, 17, 34, 39,
   73, 78, 151, 156, 312, 317}
ThreeApartRoundsDown ==
  {-348, -343, -338, -333, -328, -323, -189, -184, -179, -174, -169, -164,
   -107, -102, -97, -92, -87, -82, -66, -61, -56, -51, -46, -41, 11, 16,
   21, 26, 31, 36, 52, 57, 62, 67, 72, 77, 134, 139, 144, 149, 154, 159,
   293, 298, 303, 308, 313, 318}
WarmerByMoreThanOne(a, b) ==
  a - b > 10 \/ (a - b = 10 /\ b \in OneApartRoundsUp)
WarmerByAtLeastThree(a, b) ==
  a - b > 30 \/ (a - b = 30 /\ b \notin ThreeApartRoundsDown)

\* The autumn cooling pattern that ends pre-wintering
PreWinterEndPattern ==
  LET t0 == SupplyTempPeriod(0)
      t1 == SupplyTempPeriod(1)
      t2 == SupplyTempPeriod(2)
      t3 == SupplyTempPeriod(3)
      t4 == SupplyTempPeriod(4)
      t5 == SupplyTempPeriod(5)
  IN  /\ t2 < 130 /\ t1 < 130 /\ t0 < 130
      /\ \/ WarmerByMoreThanOne(t5, t4) /\ WarmerByMoreThanOne(t4, t3)
         \/ (t3 < 130) /\ WarmerByAtLeastThree(t5, t4)

\* Osmia_Population_Manager::DoLast: the seasonal flags
DoLast ==
  LET pw == IF today > September /\ ~m_PreWinteringEndFlag
                /\ PreWinterEndPattern
            THEN TRUE ELSE m_PreWinteringEndFlag
      ow == IF today = March THEN TRUE ELSE m_OverWinterEndFlag
  IN  /\ m_PreWinteringEndFlag' = IF today = June THEN FALSE ELSE pw
      /\ m_OverWinterEndFlag' = IF today = June THEN FALSE ELSE ow

(* ------------------------------------------------------------------ *)
(* The daily schedule: DoFirst, Step of the individual repeated until  *)
(* it reports m_StepDone, DoLast                                       *)
(* ------------------------------------------------------------------ *)
\* Days on which the weather may change; on every other day the daily
\* mean temperature is the one of the day before
CoolingDay == September + CoolingOffset
FreeDays ==
  {March + 2, March + 3, June - 2, June - 1, June, CoolingDay}
TodaysTemps ==
  IF today \in FreeDays \/ m_TempToday = UnsetTemp
  THEN Temps ELSE {m_TempToday}

\* The run follows the individual while it is in the simulation and has
\* not become a Female, up to the last simulated day
Tracked == Alive /\ stage # "Female"
WithinHorizon == simDay < runLength

\* Start of a simulated day: every object's m_StepDone is cleared and the
\* manager's DoFirst runs
Run_BeginDay ==
  /\ pc = "first"
  /\ Tracked
  /\ WithinHorizon
  /\ \E t \in TodaysTemps : DoFirst(t)
  /\ pc' = "step"
  /\ m_StepDone' = FALSE
  /\ simDay' = simDay + 1
  /\ mortTestsToday' = 0
  /\ developsToday' = 0
  /\ UNCHANGED << today, year, m_PreWinteringEndFlag, m_OverWinterEndFlag,
                  tempHist >>
  /\ UNCHANGED << stage, m_CurrentOState, m_CurrentStateNo, m_Age, m_AgeUnset,
                  m_AgeDegrees, m_AgeDegreesLow, m_DDPrewinter, m_emergencecounter, m_Sex, m_Mass,
                  m_ParasitoidStatus, m_myOsmiaPrepupaDevelTotalDays >>
  /\ UNCHANGED nestVars
  /\ DoFirstFrame
  /\ UNCHANGED << bornDay, wmTests, wmResult, readyCount, counterSets,
                  emergeCalls, trialDraw, sealedAtLaying, runLength >>

\* Temperatures of the last five days are kept from late August on, the
\* only season in which DoLast reads them
RecordTemp ==
  IF today >= September - 4 /\ today < DaysInYear - 1
  THEN SubSeq(<< m_TempToday >> \o tempHist, 1,
              IF Len(tempHist) < 5 THEN Len(tempHist) + 1 ELSE 5)
  ELSE << >>

\* End of a simulated day: every Step has reported done (or the object has
\* left the simulation), the manager's DoLast runs and the calendar advances
Run_EndDay ==
  /\ pc = "step"
  /\ m_StepDone \/ ~Alive
  /\ DoLast
  /\ tempHist' = RecordTemp
  /\ today' = (today + 1) % DaysInYear
  /\ year' = IF today + 1 = DaysInYear THEN year + 1 ELSE year
  /\ pc' = "first"
  /\ UNCHANGED << m_TempToday, m_FlyingWeather, m_PrePupalDevelDaysToday, unassigned >>
  /\ UNCHANGED indVars
  /\ UNCHANGED nestVars
  /\ UNCHANGED obsVars
  /\ UNCHANGED popVars

(* ------------------------------------------------------------------ *)
(* Step of the developing stages                                       *)
(* ------------------------------------------------------------------ *)
\* What a Step leaves alone unless it says otherwise
StepFrame ==
  /\ UNCHANGED mgrVars
  /\ UNCHANGED popVars
  /\ UNCHANGED << m_isOpen, m_aspectdelay >>
  /\ UNCHANGED << wmTests, wmResult, readyCount, counterSets, trialDraw,
                  simDay, sealedAtLaying, runLength >>

\* case toOsmias_InitialState: m_CurrentOState = toOsmias_Develop
InitialStateCase ==
  /\ m_CurrentOState' = "Develop"
  /\ StepFrame
  /\ UNCHANGED << stage, m_StepDone, m_CurrentStateNo, m_Age, m_AgeUnset, m_AgeDegrees, m_AgeDegreesLow,
                  m_DDPrewinter, m_emergencecounter, m_Sex, m_Mass,
                  m_ParasitoidStatus, m_myOsmiaPrepupaDevelTotalDays >>
  /\ UNCHANGED << inNest, bornDay, mortTestsToday, developsToday,
                  emergeCalls >>

\* case toOsmias_Develop of Egg, Larva, Prepupa and Pupa:
\* m_CurrentOState = st_Develop(); m_StepDone = done, d being the result
\* of st_Develop
DevelopCase(d, done) ==
  /\ m_CurrentOState' = d.next
  /\ m_Age' = d.m_Age /\ UNCHANGED m_AgeUnset
  /\ m_AgeDegrees' = d.m_AgeDegrees
  /\ m_AgeDegreesLow' = d.m_AgeDegreesLow
  /\ m_StepDone' = done
  /\ mortTestsToday' = mortTestsToday + d.tests
  /\ developsToday' = developsToday + d.accs
  /\ StepFrame
  /\ UNCHANGED << stage, m_CurrentStateNo, m_DDPrewinter,
                  m_emergencecounter, m_Sex, m_Mass,
                  m_ParasitoidStatus,
                  m_myOsmiaPrepupaDevelTotalDays >>
  /\ UNCHANGED << inNest, bornDay, emergeCalls >>

\* Osmia_Base::st_Dying: KillThis() and removal of the cell from the nest
st_Dying_NoKillThis ==
  /\ m_StepDone' = TRUE
  /\ StepFrame
  /\ UNCHANGED << stage, m_CurrentOState, m_CurrentStateNo, m_Age, m_AgeUnset,
                  m_AgeDegrees, m_AgeDegreesLow, m_DDPrewinter, m_emergencecounter, m_Sex,
                  m_Mass, m_ParasitoidStatus,
                  m_myOsmiaPrepupaDevelTotalDays >>
  /\ UNCHANGED << inNest, bornDay, mortTestsToday, developsToday,
                  emergeCalls >>
st_Dying ==
  /\ m_CurrentStateNo' = -1
  /\ m_StepDone' = TRUE
  /\ inNest' = FALSE
  /\ StepFrame
  /\ UNCHANGED << stage, m_CurrentOState, m_Age, m_AgeUnset, m_AgeDegrees, m_AgeDegreesLow,
                  m_DDPrewinter, m_emergencecounter, m_Sex, m_Mass,
                  m_ParasitoidStatus, m_myOsmiaPrepupaDevelTotalDays >>
  /\ UNCHANGED << bornDay, mortTestsToday, developsToday, emergeCalls >>

\* The struct_Osmia that st_Hatch, st_Prepupate, st_Pupate and
\* Osmia_Pupa::st_Emerge fill for the constructor of the next stage
StageData_MassReset ==
  [age |-> m_Age, mass |-> 0, sex |-> m_Sex,
   parasitised |-> m_ParasitoidStatus]
StageData_SexReset ==
  [age |-> m_Age, mass |-> m_Mass, sex |-> TRUE,
   parasitised |-> m_ParasitoidStatus]
StageData ==
  [age |-> m_Age, mass |-> m_Mass, sex |-> m_Sex,
   parasitised |-> m_ParasitoidStatus]

\* st_Hatch, st_Prepupate, st_Pupate and Osmia_Pupa::st_Emerge: the object
\* of the next stage is created from that struct (Osmia_Base and Osmia_Egg
\* constructors: SetAge, SetMass, SetParasitised, m_Sex = data->sex) in the
\* old one's nest cell, and the old object is killed.  The run goes on
\* with the new object, which has not stepped yet today.
Metamorphose(newStage, newTotalDays) ==
  /\ stage' = newStage
  /\ m_CurrentOState' = "InitialState"
  /\ m_StepDone' = FALSE
  /\ m_AgeDegrees' = IF newStage = "InCocoon"
                     THEN overwintering_degree_days ELSE 0
  /\ m_AgeDegreesLow' = 0
  /\ m_myOsmiaPrepupaDevelTotalDays' = newTotalDays
  /\ m_DDPrewinter' = 0
  /\ m_emergencecounter' = InitialEmergenceCounter
  /\ bornDay' = simDay
  /\ StepFrame
  /\ m_Age' = StageData.age /\ UNCHANGED m_AgeUnset
  /\ m_Mass' = StageData.mass
  /\ m_Sex' = StageData.sex
  /\ m_ParasitoidStatus' = StageData.parasitised
  /\ UNCHANGED m_CurrentStateNo
  /\ UNCHANGED << inNest, mortTestsToday, developsToday, emergeCalls >>

\* default: of every Step: Warn("unknown state - default") and
\* std::exit(TOP_Osmia); the process ends
Step_UnknownState_Continues ==
  /\ m_StepDone' = TRUE
  /\ UNCHANGED << mgrVars, nestVars, obsVars, popVars >>
  /\ UNCHANGED << stage, m_CurrentOState, m_CurrentStateNo, m_Age, m_AgeUnset,
                  m_AgeDegrees, m_AgeDegreesLow, m_DDPrewinter, m_emergencecounter, m_Sex,
                  m_Mass, m_ParasitoidStatus,
                  m_myOsmiaPrepupaDevelTotalDays >>
Step_UnknownState ==
  /\ pc' = "exit"
  /\ UNCHANGED << today, year, m_TempToday, m_FlyingWeather,
                  m_PrePupalDevelDaysToday, unassigned, m_PreWinteringEndFlag,
                  m_OverWinterEndFlag, tempHist >>
  /\ UNCHANGED << indVars, nestVars, obsVars, popVars >>

\* The constructor of a Prepupa, Pupa or InCocoon object draws the
\* object's own prepupal development time
MetamorphoseDrawn(newStage) ==
  \E u \in PrepupaDraws :
     Metamorphose(newStage, PrepupaDevelTotalDays(u))

\* Osmia_Egg::Step
Osmia_Egg_DevelopCase_NoStepDone ==
  \E u \in UniformDraws : DevelopCase(Osmia_Egg_st_Develop(u), FALSE)
Osmia_Egg_DevelopCase ==
  \E u \in UniformDraws : DevelopCase(Osmia_Egg_st_Develop(u), TRUE)

Osmia_Egg_Step ==
  /\ pc = "step" /\ stage = "Egg" /\ ~m_StepDone /\ Alive
  /\ CASE m_CurrentOState = "InitialState" -> InitialStateCase
       [] m_CurrentOState = "Develop" -> Osmia_Egg_DevelopCase
       [] m_CurrentOState = "NextStage" -> Metamorphose("Larva", 0)
       [] m_CurrentOState = "Die" -> st_Dying
       [] OTHER -> Step_UnknownState

\* Osmia_Larva::Step
Osmia_Larva_DevelopCase ==
  \E u \in UniformDraws : DevelopCase(Osmia_Larva_st_Develop(u), TRUE)

Osmia_Larva_Step ==
  /\ pc = "step" /\ stage = "Larva" /\ ~m_StepDone /\ Alive
  /\ CASE m_CurrentOState = "InitialState" -> InitialStateCase
       [] m_CurrentOState = "Develop" -> Osmia_Larva_DevelopCase
       [] m_CurrentOState = "NextStage" -> MetamorphoseDrawn("Prepupa")
       [] m_CurrentOState = "Die" -> st_Dying
       [] OTHER -> Step_UnknownState

\* Osmia_Prepupa::Step
Osmia_Prepupa_DevelopCase ==
  \E u \in UniformDraws : DevelopCase(Osmia_Prepupa_st_Develop(u), TRUE)

Osmia_Prepupa_Step_SkipsPupa ==
  /\ pc = "step" /\ stage = "Prepupa" /\ ~m_StepDone /\ Alive
  /\ CASE m_CurrentOState = "InitialState" -> InitialStateCase
       [] m_CurrentOState = "Develop" -> Osmia_Prepupa_DevelopCase
       [] m_CurrentOState = "NextStage" -> MetamorphoseDrawn("InCocoon")
       [] m_CurrentOState = "Die" -> st_Dying
       [] OTHER -> Step_UnknownState
Osmia_Prepupa_Step ==
  /\ pc = "step" /\ stage = "Prepupa" /\ ~m_StepDone /\ Alive
  /\ CASE m_CurrentOState = "InitialState" -> InitialStateCase
       [] m_CurrentOState = "Develop" -> Osmia_Prepupa_DevelopCase
       [] m_CurrentOState = "NextStage" -> MetamorphoseDrawn("Pupa")
       [] m_CurrentOState = "Die" -> st_Dying
       [] OTHER -> Step_UnknownState

\* Osmia_Pupa::Step
Osmia_Pupa_DevelopCase ==
  \E u \in UniformDraws : DevelopCase(Osmia_Pupa_st_Develop(u), TRUE)

Osmia_Pupa_Step ==
  /\ pc = "step" /\ stage = "Pupa" /\ ~m_StepDone /\ Alive
  /\ CASE m_CurrentOState = "InitialState" -> InitialStateCase
       [] m_CurrentOState = "Develop" -> Osmia_Pupa_DevelopCase
       [] m_CurrentOState = "NextStage" -> MetamorphoseDrawn("InCocoon")
       [] m_CurrentOState = "Die" -> st_Dying
       [] OTHER -> Step_UnknownState

\* The female that owns the nest closes it (Osmia_Nest::SetIsOpen(false))
SealNest ==
  /\ m_isOpen
  /\ Tracked
  /\ m_isOpen' = FALSE
  /\ sealedAtLaying' = (simDay = 0)
  /\ UNCHANGED << mgrVars, indVars, m_aspectdelay, inNest, popVars >>
  /\ UNCHANGED << simDay, bornDay, mortTestsToday, developsToday, wmTests,
                  wmResult, readyCount, counterSets, emergeCalls, trialDraw,
                  runLength >>

(* ------------------------------------------------------------------ *)
(* Step of the overwintering adult                                     *)
(* ------------------------------------------------------------------ *)
\* The random draws a call of st_Develop makes: g_random_fnc(100) only when
\* the counter is about to drop below 1, Geti() only on March+1
InPreEmergenceBranch == m_PreWinteringEndFlag /\ m_OverWinterEndFlag
DrawsOfPercent ==
  IF /\ InPreEmergenceBranch
     /\ today # March + 1
     /\ m_TempToday >= m_OsmiaInCocoonEmergenceTempThreshold
     /\ m_emergencecounter - 1 < 1
  THEN PercentDraws ELSE {0}
DrawsOfEmergenceDay ==
  IF InPreEmergenceBranch /\ today = March + 1 THEN EmergenceDays ELSE {0}

\* case toOsmias_Develop of Osmia_InCocoon::Step, d being the result of
\* st_Develop
CocoonDevelopCase(d, done) ==
  /\ m_CurrentOState' = d.next
  /\ m_Age' = d.m_Age /\ UNCHANGED m_AgeUnset
  /\ m_AgeDegrees' = d.m_AgeDegrees
  /\ m_DDPrewinter' = d.m_DDPrewinter
  /\ m_emergencecounter' = d.m_emergencecounter
  /\ m_StepDone' = done
  /\ developsToday' = developsToday + 1
  /\ wmTests' = wmTests + d.wmTests
  /\ wmResult' = IF d.wmTests = 1 THEN d.wmResult ELSE wmResult
  /\ readyCount' = readyCount + d.ready
  /\ counterSets' = counterSets + d.sets
  /\ UNCHANGED mgrVars
  /\ UNCHANGED nestVars
  /\ UNCHANGED popVars
  /\ UNCHANGED << stage, m_CurrentStateNo, m_AgeDegreesLow, m_Sex, m_Mass,
                  m_ParasitoidStatus,
                  m_myOsmiaPrepupaDevelTotalDays >>
  /\ UNCHANGED << simDay, bornDay, mortTestsToday, emergeCalls, trialDraw,
                  sealedAtLaying, runLength >>

Osmia_InCocoon_DevelopCase ==
  \E r \in DrawsOfPercent : \E g \in DrawsOfEmergenceDay :
     CocoonDevelopCase(Osmia_InCocoon_st_Develop(r, g), TRUE)

\* Adult body mass from the provision mass of the cell (hundredths of a
\* mg): m_OsmiaFemaleMassFromProvMassSlope * m_Mass + ...Const
FemaleMassFromProvMass_Unconverted(a_mass) == a_mass
FemaleMassFromProvMass(a_mass) ==
  TruncDiv(m_OsmiaFemaleMassFromProvMassSlope * a_mass, 100)
    + m_OsmiaFemaleMassFromProvMassConst

\* The branch Osmia_InCocoon::st_Emerge takes: a parasitised female returns
\* toOsmias_Die, an unparasitised female has an Osmia_Female created, a
\* male falls through to KillThis without any object being created
EmergeBranch_ParasitisedEmerges ==
  IF m_Sex THEN "Female" ELSE "Male"
EmergeBranch ==
  IF m_Sex
  THEN IF m_ParasitoidStatus # "Unparasitised" THEN "Die" ELSE "Female"
  ELSE "Male"

\* The fields of the Prepupa and InCocoon classes an object keeps
CocoonFields ==
  UNCHANGED << m_AgeDegrees, m_AgeDegreesLow, m_DDPrewinter,
               m_emergencecounter, m_myOsmiaPrepupaDevelTotalDays >>

\* The constructors Osmia_Female inherits (Osmia_Egg, Osmia_Prepupa,
\* Osmia_InCocoon), on the struct_Osmia st_Emerge fills: the counters are
\* reset and a development time is drawn
Osmia_Female_ctor ==
  /\ m_AgeDegrees' = overwintering_degree_days
  /\ m_AgeDegreesLow' = 0
  /\ m_DDPrewinter' = 0
  /\ m_emergencecounter' = InitialEmergenceCounter
  /\ \E u \in PrepupaDraws :
        m_myOsmiaPrepupaDevelTotalDays' = PrepupaDevelTotalDays(u)

\* Osmia_InCocoon::st_Emerge: a parasitised female goes to Die; otherwise a
\* female becomes an Osmia_Female (the run ends with that new object), and
\* in both remaining cases the cocoon object is killed and its cell removed
Osmia_InCocoon_st_Emerge ==
  /\ emergeCalls' = emergeCalls + 1
  /\ CASE EmergeBranch = "Die" ->
            /\ m_CurrentOState' = "Die"
            /\ UNCHANGED << stage, m_StepDone, m_CurrentStateNo, m_Age, m_AgeUnset,
                            m_Mass, m_ParasitoidStatus, inNest, bornDay >>
            /\ CocoonFields
       [] EmergeBranch = "Female" ->
            /\ stage' = "Female"
            /\ m_CurrentOState' = "InitialState"
            /\ m_StepDone' = FALSE
            /\ m_Age' = 0 /\ m_AgeUnset' = FALSE
            /\ m_Mass' = FemaleMassFromProvMass(m_Mass)
            /\ m_ParasitoidStatus' = "Unparasitised"
            /\ inNest' = FALSE
            /\ bornDay' = simDay
            /\ UNCHANGED m_CurrentStateNo
            /\ Osmia_Female_ctor
       [] EmergeBranch = "Male" ->
            /\ m_CurrentOState' = "Emerged"
            /\ m_CurrentStateNo' = -1
            /\ m_StepDone' = TRUE
            /\ inNest' = FALSE
            /\ UNCHANGED << stage, m_Age, m_AgeUnset, m_Mass, m_ParasitoidStatus,
                            bornDay >>
            /\ CocoonFields
  /\ StepFrame
  /\ UNCHANGED m_Sex
  /\ UNCHANGED << mortTestsToday, developsToday >>

\* Osmia_InCocoon::Step
Osmia_InCocoon_Step ==
  /\ pc = "step" /\ stage = "InCocoon" /\ ~m_StepDone /\ Alive
  /\ CASE m_CurrentOState = "InitialState" -> InitialStateCase
       [] m_CurrentOState = "Develop" -> Osmia_InCocoon_DevelopCase
       [] m_CurrentOState = "NextStage" -> Osmia_InCocoon_st_Emerge
       [] m_CurrentOState = "Die" -> st_Dying
       [] OTHER -> Step_UnknownState

(* ------------------------------------------------------------------ *)
(* The runs that follow one individual leave the nest's cell list, the  *)
(* worker threads, the polygon and the density grid out of account      *)
(* ------------------------------------------------------------------ *)
NoOp == [op |-> "none", old |-> 0, new |-> 0, len |-> 0, open |-> FALSE]

CellsIdle ==
  /\ m_cells = << >> /\ objStage = << >>
  /\ eggsLaid = 0 /\ cocoonsSeeded = 0 /\ lastOp = NoOp

\* The nest lock when no thread holds it
Unlocked == [owner |-> 0, count |-> 0]

ThreadsIdle ==
  /\ tpc = << >> /\ tobj = << >>
  /\ m_cell_lock = Unlocked /\ lockSite = {} /\ mutating = {}

PolyIdle ==
  /\ polyLock = 0 /\ m_NestList = {} /\ m_CurrentNestCount = 0
  /\ m_MaxNests = 0 /\ toSeed = << >> /\ nestsMade = 0

GridIdle ==
  /\ m_FemaleDensityGrid = 0 /\ treg = << >> /\ gridOps = 0

\* The static parameters a representative of each kind: a total, a
\* threshold, a mortality, a mass coefficient and the rate table, as
\* static initialisation leaves them and as the constructor sets them
StaticDefaults ==
  [m_OsmiaEggDevelTotalDD |-> 0, m_OsmiaLarvaDevelThreshold |-> 0,
   m_DailyDevelopmentMortEggs |-> 0,
   m_OsmiaFemaleMassFromProvMassSlope |-> 0,
   m_PrePupalDevelRates |-> << >>]
ConfiguredParams ==
  [m_OsmiaEggDevelTotalDD |-> m_OsmiaEggDevelTotalDD,
   m_OsmiaLarvaDevelThreshold |-> m_OsmiaLarvaDevelThreshold,
   m_DailyDevelopmentMortEggs |-> m_DailyDevelopmentMortEggs,
   m_OsmiaFemaleMassFromProvMassSlope |-> m_OsmiaFemaleMassFromProvMassSlope,
   m_PrePupalDevelRates |-> m_PrePupalDevelRates]

\* The population manager has been constructed
CfgIdle == staticParams = ConfiguredParams

\* No adult female is followed
FemIdle ==
  /\ femState = "none"
  /\ m_EggsToLay = 0 /\ m_EggsThisNest = 0 /\ m_ToDisperse = FALSE
  /\ nestFindAttempts = 0 /\ m_OurNest = 0 /\ nestIsOpen = << >>
  /\ eggLoad = 0 /\ eggsLaidInLife = 0

\* No forage patch is followed
ForageIdle ==
  /\ m_ForageLoc = FALSE /\ patchPollen = 0 /\ patchPollenAtSelection = 0
  /\ forageReturn = 0 /\ forageDay = 0

PopIdle ==
  /\ CellsIdle /\ ThreadsIdle /\ PolyIdle /\ GridIdle /\ CfgIdle
  /\ FemIdle /\ ForageIdle

(* ------------------------------------------------------------------ *)
(* Development of one egg laid in an open nest                         *)
(* ------------------------------------------------------------------ *)
ParasitoidTypes == {"Unparasitised", "Bombylid"}

\* An egg just laid, followed for a_days simulated days
InitEgg(a_days) ==
  /\ PopIdle
  /\ pc = "first" /\ today = LayDay /\ year = 0
  /\ m_TempToday \in Temps
  /\ unassigned = {}
  /\ m_FlyingWeather = GetFlyingHours(m_TempToday)
  /\ m_PrePupalDevelDaysToday
        = m_PrePupalDevelRates[PrePupalTempIndex(m_TempToday) + 1]
  /\ m_PreWinteringEndFlag = FALSE /\ m_OverWinterEndFlag = FALSE
  /\ tempHist = << >>
  /\ stage = "Egg" /\ m_CurrentOState = "InitialState"
  /\ m_StepDone = FALSE /\ m_CurrentStateNo = 0
  /\ m_AgeUnset = FALSE /\ m_Age = 0 /\ m_AgeDegrees = 0 /\ m_AgeDegreesLow = 0
  /\ m_DDPrewinter = 0 /\ m_emergencecounter = InitialEmergenceCounter
  /\ m_Sex \in BOOLEAN /\ m_ParasitoidStatus = "Unparasitised"
  /\ m_Mass \in ProvisionMasses
  /\ m_myOsmiaPrepupaDevelTotalDays = 0
  /\ m_isOpen = TRUE /\ m_aspectdelay = 0
  /\ inNest = TRUE
  /\ sealedAtLaying = FALSE /\ runLength = a_days
  /\ simDay = 0 /\ bornDay = 0
  /\ mortTestsToday = 0 /\ developsToday = 0
  /\ wmTests = 0 /\ wmResult = "none" /\ readyCount = 0
  /\ counterSets = 0 /\ emergeCalls = 0 /\ trialDraw = -1

InitDev == InitEgg(MaxDevDays)

NextDev ==
  \/ Run_BeginDay
  \/ Osmia_Egg_Step
  \/ Osmia_Larva_Step
  \/ Osmia_Prepupa_Step
  \/ Osmia_Pupa_Step
  \/ Osmia_InCocoon_Step
  \/ SealNest
  \/ Run_EndDay

SpecDev == InitDev /\ [][NextDev]_vars

\* The whole life of one egg, from laying to the emergence of the adult
\* in the spring of the next year
InitLife == InitEgg(MaxLifeDays)

SpecLife == InitLife /\ [][NextDev]_vars

(* ------------------------------------------------------------------ *)
(* Overwintering of one adult in its cocoon: either one seeded by the   *)
(* population manager's constructor on the first day of the simulation, *)
(* or one that eclosed from a pupa in late summer                       *)
(* ------------------------------------------------------------------ *)
InitCocoonCommon ==
  /\ PopIdle
  /\ pc = "first" /\ year = 0
  /\ tempHist = << >>
  /\ stage = "InCocoon" /\ m_CurrentOState = "InitialState"
  /\ m_StepDone = FALSE /\ m_CurrentStateNo = 0
  /\ m_AgeDegreesLow = 0
  /\ m_DDPrewinter = 0 /\ m_emergencecounter = InitialEmergenceCounter
  /\ m_myOsmiaPrepupaDevelTotalDays \in PrepupaTargets
  /\ m_aspectdelay \in 0 .. MaxAspectDelay
  /\ inNest = TRUE
  /\ sealedAtLaying = FALSE
  /\ simDay = 0 /\ bornDay = 0
  /\ mortTestsToday = 0 /\ developsToday = 0
  /\ wmTests = 0 /\ wmResult = "none" /\ readyCount = 0
  /\ counterSets = 0 /\ emergeCalls = 0 /\ trialDraw = -1

\* Osmia_Population_Manager constructor: sp->mass = minmass + (maxmass -
\* minmass) * g_rand_uni_fnc(), u in 1/10000
SeededMass(u) ==
  LET minmass == (cfg_OsmiaFemaleMassMin - 400) * 4
      maxmass == (cfg_OsmiaFemaleMassMax - 400) * 4
  IN  minmass + TruncDiv((maxmass - minmass) * u, 10000)

\* The state after the Osmia_Population_Manager constructor, before the
\* first DoFirst: m_TempToday still -9999, the flying hours and the
\* prepupal rate of the day never assigned (unassigned; any int and any
\* double, NaN included), flags (true, false); the seeded cocoon is a female,
\* unparasitised, in a new open nest, SetAgeDegrees(2000).  Its m_Age is
\* the never assigned sp->age of the constructor's struct_Osmia: any int
\* (m_AgeUnset), of which m_Age holds the days added since
InitSeeded ==
  /\ InitCocoonCommon
  /\ today = 0 /\ runLength = MaxSimDays
  /\ m_TempToday = UnsetTemp
  /\ unassigned = DayValueMembers
  /\ m_FlyingWeather = 0 /\ m_PrePupalDevelDaysToday = 0
  /\ m_PreWinteringEndFlag = TRUE /\ m_OverWinterEndFlag = FALSE
  /\ m_Age = 0 /\ m_AgeUnset = TRUE /\ m_AgeDegrees = SeededAgeDegrees
  /\ m_Sex = TRUE /\ m_ParasitoidStatus = "Unparasitised"
  /\ m_Mass \in {SeededMass(u) : u \in SeedDraws}
  /\ m_isOpen = TRUE

\* CreateObjects(to_OsmiaInCocoon, pupa, ...) in late summer, both flags
\* cleared by DoLast on the first of June
InitEclosed ==
  /\ InitCocoonCommon
  /\ today = EclosionDay /\ runLength = MaxEclosedDays
  /\ m_TempToday \in Temps
  /\ unassigned = {}
  /\ m_FlyingWeather = GetFlyingHours(m_TempToday)
  /\ m_PrePupalDevelDaysToday
        = m_PrePupalDevelRates[PrePupalTempIndex(m_TempToday) + 1]
  /\ m_PreWinteringEndFlag = FALSE /\ m_OverWinterEndFlag = FALSE
  /\ m_Age = EclosionDay - LayDay /\ m_AgeUnset = FALSE
  /\ m_AgeDegrees = overwintering_degree_days
  /\ m_Sex \in BOOLEAN /\ m_ParasitoidStatus \in ParasitoidTypes
  /\ m_Mass \in ProvisionMasses
  /\ m_isOpen = FALSE

Init == InitSeeded \/ InitEclosed

Next ==
  \/ Run_BeginDay
  \/ Osmia_InCocoon_Step
  \/ Run_EndDay

Spec == Init /\ [][Next]_vars

(* ------------------------------------------------------------------ *)
(* Trials of the winter mortality function on its own: a cocoon with a  *)
(* given pre-wintering degree-day sum takes the test once               *)
(* ------------------------------------------------------------------ *)
\* Pre-wintering sums at which slope*DD + const is a whole number: 92.6,
\* 112.6, ... 192.6 degree-days
TieTrialDD == {926 + 200 * r : r \in 0 .. 5}

InitTrial ==
  /\ PopIdle
  /\ pc = "trial" /\ today = March + 2 /\ year = 0
  /\ m_TempToday = 200
  /\ unassigned = {}
  /\ m_FlyingWeather = GetFlyingHours(m_TempToday)
  /\ m_PrePupalDevelDaysToday
        = m_PrePupalDevelRates[PrePupalTempIndex(m_TempToday) + 1]
  /\ m_PreWinteringEndFlag = TRUE /\ m_OverWinterEndFlag = TRUE
  /\ tempHist = << >>
  /\ stage = "InCocoon" /\ m_CurrentOState = "Develop"
  /\ m_StepDone = FALSE /\ m_CurrentStateNo = 0
  /\ m_AgeUnset = FALSE /\ m_Age = 0 /\ m_AgeDegrees = 0 /\ m_AgeDegreesLow = 0
  /\ m_DDPrewinter \in {10 * d : d \in 0 .. MaxTrialDD} \cup TieTrialDD
  /\ m_emergencecounter = 1
  /\ m_Sex = TRUE /\ m_ParasitoidStatus = "Unparasitised"
  /\ m_Mass = SeededMass(0)
  /\ m_myOsmiaPrepupaDevelTotalDays \in PrepupaTargets
  /\ m_isOpen = FALSE /\ m_aspectdelay = 0 /\ inNest = TRUE
  /\ simDay = 0 /\ bornDay = 0
  /\ mortTestsToday = 0 /\ developsToday = 0
  /\ wmTests = 0 /\ wmResult = "none" /\ readyCount = 0
  /\ counterSets = 1 /\ emergeCalls = 0 /\ trialDraw = -1
  /\ sealedAtLaying = FALSE /\ runLength = 0

WinterMortalityTrial ==
  /\ pc = "trial"
  /\ \E r \in PercentDraws :
        /\ trialDraw' = r
        /\ wmResult' = IF WinterMortality(r, m_DDPrewinter)
                       THEN "died" ELSE "passed"
  /\ wmTests' = wmTests + 1
  /\ pc' = "tried"
  /\ UNCHANGED << today, year, m_TempToday, m_FlyingWeather,
                  m_PrePupalDevelDaysToday, unassigned, m_PreWinteringEndFlag, m_OverWinterEndFlag, tempHist >>
  /\ UNCHANGED << indVars, nestVars, popVars >>
  /\ UNCHANGED << simDay, bornDay, mortTestsToday, developsToday,
                  readyCount, counterSets, emergeCalls, sealedAtLaying,
                  runLength >>

NextTrial == WinterMortalityTrial

SpecWM == InitTrial /\ [][NextTrial]_vars

(* ------------------------------------------------------------------ *)
(* One nest and the objects that occupy its cells                      *)
(* ------------------------------------------------------------------ *)
\* Largest number of eggs the owning female lays in the nest
MaxEggs == 2
\* Largest number of objects created for the nest during a run
MaxObjects == 7

ObjectIds == 1 .. MaxObjects
DevelopingStages == {"Egg", "Larva", "Prepupa", "Pupa"}
InNestStages == DevelopingStages \cup {"InCocoon"}
NextStageOf(s) ==
  CASE s = "Egg" -> "Larva"
    [] s = "Larva" -> "Prepupa"
    [] s = "Prepupa" -> "Pupa"
    [] s = "Pupa" -> "InCocoon"

Range(q) == {q[k] : k \in 1 .. Len(q)}

\* new: the next object not yet constructed
NoFreeObject == \A i \in ObjectIds : objStage[i] # "none"
NewObject == CHOOSE i \in ObjectIds :
                /\ objStage[i] = "none"
                /\ \A j \in ObjectIds : objStage[j] = "none" => i <= j

\* Osmia_Nest::AddCocoon: m_cells.push_front(a_cocoon)
AddCocoon(cells, a_cocoon) == << a_cocoon >> \o cells

\* Osmia_Nest::AddEgg: appends the egg to the cell list
AddEgg(cells, a_egg) == Append(cells, a_egg)

\* Osmia_Nest::ReplaceNestPointer: linear search for a_old_ptr, which is
\* replaced by a_new_ptr in place
ReplaceNestPointer_KeepsOld(cells, a_old_ptr, a_new_ptr) == cells
ReplaceNestPointer(cells, a_old_ptr, a_new_ptr) ==
  [k \in 1 .. Len(cells) |->
      IF cells[k] = a_old_ptr THEN a_new_ptr ELSE cells[k]]

\* Osmia_Nest::RemoveCell, which is neither declared nor defined in the
\* sources: the lists it may leave.  The comment of st_Dying has the agent
\* removed from its nest's list of cells; the notes of Osmia_Nest and of
\* GetCellCount have cells never removed and dead cells remaining in the
\* list as inactive pointers
RemoveCell(cells, a_ptr) ==
  { SelectSeq(cells, LAMBDA x : x # a_ptr), cells }

\* Osmia_Nest::GetCellCount: the current size of m_cells
GetCellCount == Len(m_cells)

\* Osmia_Nest::SetIsOpen(a_status)
SetIsOpen(a_status) == m_isOpen' = a_status

\* Osmia_Population_Manager::CreateObjects, the part that acts on the
\* nest: an egg is added, the successor of a_caller takes a_caller's
\* place, a cocoon without a caller (a_caller == NULL, written 0) is added
CreateObjects_AlwaysAdd(os_type, a_caller, new) ==
  [ objStage |-> [objStage EXCEPT ![new] = os_type],
    m_cells |-> CASE os_type = "Egg" -> AddEgg(m_cells, new)
                  [] os_type \in {"Larva", "Prepupa", "Pupa"} ->
                       AddCocoon(m_cells, new)
                  [] os_type = "InCocoon" -> AddCocoon(m_cells, new)
                  [] os_type = "Female" -> m_cells ]

CreateObjects(os_type, a_caller, new) ==
  [ objStage |-> [objStage EXCEPT ![new] = os_type],
    m_cells |-> CASE os_type = "Egg" -> AddEgg(m_cells, new)
                  [] os_type \in {"Larva", "Prepupa", "Pupa"} ->
                       ReplaceNestPointer(m_cells, a_caller, new)
                  [] os_type = "InCocoon" ->
                       IF a_caller = 0 THEN AddCocoon(m_cells, new)
                       ELSE ReplaceNestPointer(m_cells, a_caller, new)
                  [] os_type = "Female" -> m_cells ]

\* The worker threads of the parallel Step loop.  The task of a thread is
\* the object whose Step it runs (0: the owning female), the nest operation
\* that Step has still to make and the object the Step has constructed
Threads == {1, 2}
NoTask == [obj |-> 0, op |-> "none", new |-> 0]
BeingStepped == {tobj[u].obj : u \in Threads}

\* What an operation on the nest leaves alone
NestFrame ==
  /\ UNCHANGED << mgrVars, indVars, m_aspectdelay, inNest, obsVars >>
  /\ UNCHANGED << cocoonsSeeded, m_cell_lock, lockSite, mutating, polyVars,
                  gridVars, cfgVars, femVars, forageVars >>

Record(op, old, new) ==
  lastOp' = [op |-> op, old |-> old, new |-> new, len |-> Len(m_cells),
             open |-> m_isOpen]

\* The female that claimed the nest, stepped by thread t, lays an egg in
\* it: CreateObjects(to_OsmiaEgg, ...) up to PushIndividual, the new egg is
\* in the population and in no cell yet.  CreateObjects does not look at
\* m_isOpen; whether the female, whose methods are not in the sources, does
\* so before the call is not known, so the call is made on any nest of hers
Osmia_Female_LayEgg(t) ==
  /\ tpc[t] = "idle"
  /\ cocoonsSeeded = 0
  /\ eggsLaid < MaxEggs
  /\ ~NoFreeObject
  /\ \A u \in Threads : tobj[u].op # "AddEgg"
  /\ objStage' = CreateObjects("Egg", 0, NewObject).objStage
  /\ tobj' = [tobj EXCEPT ![t] = [obj |-> 0, op |-> "AddEgg",
                                  new |-> NewObject]]
  /\ tpc' = [tpc EXCEPT ![t] = "AddEgg"]
  /\ UNCHANGED << m_cells, eggsLaid, m_isOpen, lastOp >>
  /\ NestFrame

\* The rest of CreateObjects(to_OsmiaEgg, ...): SetCellLock, AddEgg,
\* ReleaseCellLock; the female's Step goes on
CreateObjects_AddEgg(t) ==
  /\ tpc[t] = "AddEgg"
  /\ m_cells' = CreateObjects("Egg", 0, tobj[t].new).m_cells
  /\ eggsLaid' = eggsLaid + 1
  /\ Record("LayEgg", 0, tobj[t].new)
  /\ tpc' = [tpc EXCEPT ![t] = "idle"]
  /\ tobj' = [tobj EXCEPT ![t] = NoTask]
  /\ UNCHANGED << objStage, m_isOpen >>
  /\ NestFrame

\* A call of Osmia_Nest::SetIsOpen(a_status).  The setter assigns either
\* value; its callers (the provisioning female, the manager's cleanup) are
\* not in the sources, so neither the value nor the moment is known
Osmia_Nest_SetIsOpen ==
  /\ \E a_status \in BOOLEAN :
        a_status # m_isOpen /\ SetIsOpen(a_status)
  /\ Record("SetIsOpen", 0, 0)
  /\ UNCHANGED << m_cells, objStage, eggsLaid, tpc, tobj >>
  /\ NestFrame

\* st_Hatch, st_Prepupate, st_Pupate and Osmia_Pupa::st_Emerge of an
\* occupant stepped by thread t: CreateObjects(next stage, this, ...) up to
\* PushIndividual, the successor is in the population, the cell still
\* holds the predecessor
Occupant_NextStage(t) ==
  /\ tpc[t] = "idle"
  /\ ~NoFreeObject
  /\ \E i \in Range(m_cells) \ BeingStepped :
        /\ objStage[i] \in DevelopingStages
        /\ objStage' =
             CreateObjects(NextStageOf(objStage[i]), i, NewObject).objStage
        /\ tobj' = [tobj EXCEPT ![t] = [obj |-> i,
                        op |-> "ReplaceNestPointer", new |-> NewObject]]
  /\ tpc' = [tpc EXCEPT ![t] = "ReplaceNestPointer"]
  /\ UNCHANGED << m_cells, eggsLaid, m_isOpen, lastOp >>
  /\ NestFrame

\* The rest of that CreateObjects: SetCellLock, ReplaceNestPointer(caller,
\* new), ReleaseCellLock; the caller, still alive, is in no cell any more
CreateObjects_ReplaceNestPointer(t) ==
  /\ tpc[t] = "ReplaceNestPointer"
  /\ m_cells' = CreateObjects(objStage[tobj[t].new], tobj[t].obj,
                              tobj[t].new).m_cells
  /\ Record("Metamorphosis", tobj[t].obj, tobj[t].new)
  /\ tpc' = [tpc EXCEPT ![t] = "KillThis"]
  /\ UNCHANGED << objStage, eggsLaid, m_isOpen, tobj >>
  /\ NestFrame

\* KillThis() of the caller after CreateObjects has returned: the last
\* statement of st_Hatch, st_Prepupate, st_Pupate and Osmia_Pupa::st_Emerge;
\* in Osmia_InCocoon::st_Emerge RemoveCell(this) follows
Occupant_KillThis(t) ==
  /\ tpc[t] = "KillThis"
  /\ objStage' = [objStage EXCEPT ![tobj[t].obj] = "killed"]
  /\ IF tobj[t].op = "Emerge"
     THEN /\ tpc' = [tpc EXCEPT ![t] = "RemoveCell"]
          /\ UNCHANGED tobj
     ELSE /\ tpc' = [tpc EXCEPT ![t] = "idle"]
          /\ tobj' = [tobj EXCEPT ![t] = NoTask]
  /\ UNCHANGED << m_cells, eggsLaid, m_isOpen, lastOp >>
  /\ NestFrame

\* Osmia_Base::st_Dying of an occupant stepped by thread t: KillThis();
\* RemoveCell(this) follows
Osmia_Base_st_Dying(t) ==
  /\ tpc[t] = "idle"
  /\ \E i \in Range(m_cells) \ BeingStepped :
        /\ objStage[i] \in InNestStages
        /\ objStage' = [objStage EXCEPT ![i] = "killed"]
        /\ tobj' = [tobj EXCEPT ![t] = [obj |-> i, op |-> "Die",
                                        new |-> 0]]
  /\ tpc' = [tpc EXCEPT ![t] = "RemoveCell"]
  /\ UNCHANGED << m_cells, eggsLaid, m_isOpen, lastOp >>
  /\ NestFrame

\* Osmia_InCocoon::st_Emerge of an occupant stepped by thread t: a female
\* first constructs the new Osmia_Female object (CreateObjects(
\* to_OsmiaFemale, this, ...), no nest operation) and calls KillThis()
\* next; a male calls KillThis() at once; RemoveCell(this) follows
Occupant_Emerge(t) ==
  /\ tpc[t] = "idle"
  /\ \E i \in Range(m_cells) \ BeingStepped :
        /\ objStage[i] = "InCocoon"
        /\ \E sex \in BOOLEAN :
              IF sex
              THEN /\ ~NoFreeObject
                   /\ objStage' =
                        CreateObjects("Female", i, NewObject).objStage
                   /\ tobj' = [tobj EXCEPT ![t] = [obj |-> i,
                                   op |-> "Emerge", new |-> NewObject]]
                   /\ tpc' = [tpc EXCEPT ![t] = "KillThis"]
              ELSE /\ objStage' = [objStage EXCEPT ![i] = "killed"]
                   /\ tobj' = [tobj EXCEPT ![t] = [obj |-> i,
                                   op |-> "Emerge", new |-> 0]]
                   /\ tpc' = [tpc EXCEPT ![t] = "RemoveCell"]
  /\ UNCHANGED << m_cells, eggsLaid, m_isOpen, lastOp >>
  /\ NestFrame

\* m_OurNest->RemoveCell(this) of st_Dying and Osmia_InCocoon::st_Emerge,
\* after KillThis(); the Step returns
Occupant_RemoveCell(t) ==
  /\ tpc[t] = "RemoveCell"
  /\ m_cells' \in RemoveCell(m_cells, tobj[t].obj)
  /\ Record(tobj[t].op, tobj[t].obj, 0)
  /\ tpc' = [tpc EXCEPT ![t] = "idle"]
  /\ tobj' = [tobj EXCEPT ![t] = NoTask]
  /\ UNCHANGED << objStage, eggsLaid, m_isOpen >>
  /\ NestFrame

\* The runs on a nest leave the tracked individual, the threads, the
\* polygon and the grid out of account
NoIndividual ==
  /\ stage = "none" /\ m_CurrentOState = "InitialState"
  /\ m_StepDone = FALSE /\ m_CurrentStateNo = 0
  /\ m_AgeUnset = FALSE /\ m_Age = 0 /\ m_AgeDegrees = 0 /\ m_AgeDegreesLow = 0
  /\ m_DDPrewinter = 0 /\ m_emergencecounter = InitialEmergenceCounter
  /\ m_Sex = TRUE /\ m_ParasitoidStatus = "Unparasitised"
  /\ m_Mass = 0
  /\ m_myOsmiaPrepupaDevelTotalDays = 0
  /\ m_aspectdelay = 0 /\ inNest = FALSE
  /\ simDay = 0 /\ bornDay = 0
  /\ mortTestsToday = 0 /\ developsToday = 0
  /\ wmTests = 0 /\ wmResult = "none" /\ readyCount = 0
  /\ counterSets = 0 /\ emergeCalls = 0 /\ trialDraw = -1
  /\ sealedAtLaying = FALSE

\* The manager as its constructor leaves it: day 0, m_TempToday -9999,
\* flags (true, false); m_FlyingWeather and m_PrePupalDevelDaysToday are
\* assigned by no statement of the constructor (unassigned)
ManagerAtStart ==
  /\ today = 0 /\ year = 0
  /\ m_TempToday = UnsetTemp
  /\ unassigned = DayValueMembers
  /\ m_FlyingWeather = 0 /\ m_PrePupalDevelDaysToday = 0
  /\ m_PreWinteringEndFlag = TRUE /\ m_OverWinterEndFlag = FALSE
  /\ tempHist = << >>

\* The manager during a day of the flight season at 20.0 C, after its
\* DoFirst; both flags were cleared by DoLast on the first of June
ManagerInSeason ==
  /\ today = LayDay /\ year = 0
  /\ m_TempToday = 200
  /\ unassigned = {}
  /\ m_FlyingWeather = GetFlyingHours(m_TempToday)
  /\ m_PrePupalDevelDaysToday
        = m_PrePupalDevelRates[PrePupalTempIndex(m_TempToday) + 1]
  /\ m_PreWinteringEndFlag = FALSE /\ m_OverWinterEndFlag = FALSE
  /\ tempHist = << >>

\* No individual is followed; the manager is in the flight season
TrackedIdle == ManagerInSeason /\ NoIndividual /\ runLength = 0

IndIdle == pc = "nest" /\ NoIndividual /\ runLength = 0

\* A nest just claimed by a female (Osmia_Nest constructor: open, empty)
InitClaimedNest ==
  /\ m_isOpen = TRUE
  /\ m_cells = << >>
  /\ objStage = [i \in ObjectIds |-> "none"]
  /\ eggsLaid = 0 /\ cocoonsSeeded = 0

\* A nest made by the population manager's constructor for one overwintering
\* adult: CreateNest, then CreateObjects(to_OsmiaInCocoon, NULL, ...)
InitSeededNest ==
  /\ m_isOpen = TRUE
  /\ m_cells = AddCocoon(<< >>, 1)
  /\ objStage = [i \in ObjectIds |-> IF i = 1 THEN "InCocoon" ELSE "none"]
  /\ eggsLaid = 0 /\ cocoonsSeeded = 1

\* No thread is in a Step and the nest's lock is free
InitNest ==
  /\ IndIdle /\ PolyIdle /\ GridIdle /\ CfgIdle /\ FemIdle /\ ForageIdle
  /\ tpc = [t \in Threads |-> "idle"]
  /\ tobj = [t \in Threads |-> NoTask]
  /\ m_cell_lock = Unlocked /\ lockSite = {} /\ mutating = {}
  /\ lastOp = NoOp
  /\ \/ ManagerInSeason /\ InitClaimedNest
     \/ ManagerAtStart /\ InitSeededNest

NextNest ==
  \/ Osmia_Nest_SetIsOpen
  \/ \E t \in Threads :
        \/ Osmia_Female_LayEgg(t)
        \/ CreateObjects_AddEgg(t)
        \/ Occupant_NextStage(t)
        \/ CreateObjects_ReplaceNestPointer(t)
        \/ Occupant_KillThis(t)
        \/ Osmia_Base_st_Dying(t)
        \/ Occupant_Emerge(t)
        \/ Occupant_RemoveCell(t)

SpecNest == InitNest /\ [][NextNest]_vars

(* ------------------------------------------------------------------ *)
(* The nest's objects when Step is also called on objects that have     *)
(* been killed and not yet taken off the manager's lists                *)
(* ------------------------------------------------------------------ *)
\* Step of a killed object i: if (m_StepDone || m_CurrentStateNo == -1)
\* return; nothing of the object or the nest is touched
Occupant_Step_Killed_Repeats(i) ==
  /\ objStage[i] = "killed"
  /\ i \notin BeingStepped
  /\ ~NoFreeObject
  /\ objStage' = [objStage EXCEPT ![NewObject] = "Larva"]
  /\ m_cells' = AddCocoon(m_cells, NewObject)
  /\ Record("StepKilled", i, NewObject)
  /\ UNCHANGED << m_isOpen, eggsLaid, tpc, tobj >>
  /\ NestFrame

Occupant_Step_Killed(i) ==
  /\ objStage[i] = "killed"
  /\ i \notin BeingStepped
  /\ Record("StepKilled", i, 0)
  /\ UNCHANGED << m_cells, objStage, m_isOpen, eggsLaid, tpc, tobj >>
  /\ NestFrame

NextKilled ==
  \/ NextNest
  \/ \E i \in ObjectIds : Occupant_Step_Killed(i)

SpecKilled == InitNest /\ [][NextKilled]_vars

(* ------------------------------------------------------------------ *)
(* Two worker threads of the parallel Step loop acting on one nest      *)
(* ------------------------------------------------------------------ *)
\* Largest number of eggs in the nest shared by the threads
MaxSharedEggs == 3

\* Largest number of objects created for the nest shared by the threads
MaxSharedObjects == 5
\* new: objects are constructed in the order of their numbers
SharedNestFull == objStage[MaxSharedObjects] # "none"

\* omp_set_nest_lock(m_cell_lock): waits until the lock is free or already
\* owned by the calling thread, then counts one more acquisition; site is
\* the function that made the call
SetCellLock_NoWait(t, site) ==
  /\ m_cell_lock' = [owner |-> t, count |-> m_cell_lock.count + 1]
  /\ lockSite' = lockSite \cup {site}

SetCellLock(t, site) ==
  /\ m_cell_lock.owner \in {0, t}
  /\ m_cell_lock' = [owner |-> t, count |-> m_cell_lock.count + 1]
  /\ lockSite' = lockSite \cup {site}

\* omp_unset_nest_lock(m_cell_lock): one acquisition fewer; the lock is
\* free when none is left
ReleaseCellLock(t, site) ==
  /\ m_cell_lock' = IF m_cell_lock.count <= 1 THEN Unlocked
                    ELSE [m_cell_lock EXCEPT !.count = @ - 1]
  /\ lockSite' = lockSite \ {site}

\* The constructor's seeding loop is running on the nest: no Step is
\* called before the constructor has returned
InSeedingLoop == today = 0

\* What a step of a thread leaves alone
ThreadFrame ==
  /\ UNCHANGED << mgrVars, indVars, m_isOpen, m_aspectdelay, inNest,
                  obsVars >>
  /\ UNCHANGED << lastOp, polyVars, gridVars, cfgVars,
                  femVars, forageVars >>

\* Constructor, seeding loop on thread t, for the nest CreateNest has just
\* returned to it: CreateObjects(to_OsmiaInCocoon, NULL, sp, 1) constructs
\* the cocoon
Thread_SeedCocoon(t) ==
  /\ InSeedingLoop
  /\ tpc[t] = "idle"
  /\ cocoonsSeeded = 0
  /\ \A u \in Threads : tobj[u] = NoTask
  /\ objStage' = [objStage EXCEPT ![NewObject] = "InCocoon"]
  /\ tobj' = [tobj EXCEPT ![t] = [obj |-> 0, op |-> "AddCocoon",
                                  new |-> NewObject]]
  /\ cocoonsSeeded' = cocoonsSeeded + 1
  /\ tpc' = [tpc EXCEPT ![t] = "SetCellLock"]
  /\ UNCHANGED << m_cells, eggsLaid, m_cell_lock, lockSite, mutating >>
  /\ ThreadFrame

\* Step of occupant i on thread t reaches st_Hatch, st_Prepupate, st_Pupate
\* or Osmia_Pupa::st_Emerge: CreateObjects constructs the successor
Thread_NextStage(t) ==
  /\ ~InSeedingLoop
  /\ tpc[t] = "idle"
  /\ ~SharedNestFull
  /\ \E i \in Range(m_cells) \ BeingStepped :
        /\ objStage[i] \in DevelopingStages
        /\ objStage' = [objStage EXCEPT
                           ![NewObject] = NextStageOf(objStage[i])]
        /\ tobj' = [tobj EXCEPT ![t] = [obj |-> i,
                        op |-> "ReplaceNestPointer", new |-> NewObject]]
  /\ tpc' = [tpc EXCEPT ![t] = "SetCellLock"]
  /\ UNCHANGED << m_cells, eggsLaid, m_cell_lock, lockSite, mutating >>
  /\ UNCHANGED cocoonsSeeded
  /\ ThreadFrame

\* Step of occupant i on thread t reaches Osmia_InCocoon::st_Emerge and i
\* is an unparasitised female: CreateObjects(to_OsmiaFemale, this, ...)
\* constructs the adult, for which no nest operation is made; KillThis()
\* and RemoveCell(this) follow
Thread_Emerge(t) ==
  /\ ~InSeedingLoop
  /\ tpc[t] = "idle"
  /\ ~SharedNestFull
  /\ \E i \in Range(m_cells) \ BeingStepped :
        /\ objStage[i] = "InCocoon"
        /\ objStage' = [objStage EXCEPT ![NewObject] = "Female"]
        /\ tobj' = [tobj EXCEPT ![t] = [obj |-> i, op |-> "RemoveCell",
                                        new |-> NewObject]]
  /\ tpc' = [tpc EXCEPT ![t] = "KillThis"]
  /\ UNCHANGED << m_cells, eggsLaid, m_cell_lock, lockSite, mutating >>
  /\ UNCHANGED cocoonsSeeded
  /\ ThreadFrame

\* Step of occupant i on thread t reaches st_Dying, or
\* Osmia_InCocoon::st_Emerge and i is a male: KillThis(), then
\* RemoveCell(this)
Thread_KillThis(t) ==
  /\ ~InSeedingLoop
  /\ tpc[t] = "idle"
  /\ \E i \in Range(m_cells) \ BeingStepped :
        /\ objStage[i] \in InNestStages
        /\ objStage' = [objStage EXCEPT ![i] = "killed"]
        /\ tobj' = [tobj EXCEPT ![t] = [obj |-> i, op |-> "RemoveCell",
                                        new |-> 0]]
  /\ tpc' = [tpc EXCEPT ![t] = "RemoveCell"]
  /\ UNCHANGED << m_cells, eggsLaid, m_cell_lock, lockSite, mutating >>
  /\ UNCHANGED cocoonsSeeded
  /\ ThreadFrame

\* Step of the owning female on thread t lays an egg: CreateObjects
\* constructs the egg
Thread_LayEgg(t) ==
  /\ ~InSeedingLoop
  /\ tpc[t] = "idle"
  /\ eggsLaid < MaxSharedEggs
  /\ ~SharedNestFull
  /\ \A u \in Threads : tobj[u].op # "AddEgg"
  /\ objStage' = [objStage EXCEPT ![NewObject] = "Egg"]
  /\ tobj' = [tobj EXCEPT ![t] = [obj |-> 0, op |-> "AddEgg",
                                  new |-> NewObject]]
  /\ eggsLaid' = eggsLaid + 1
  /\ tpc' = [tpc EXCEPT ![t] = "SetCellLock"]
  /\ UNCHANGED << m_cells, m_cell_lock, lockSite, mutating >>
  /\ UNCHANGED cocoonsSeeded
  /\ ThreadFrame

\* CreateObjects: data->nest->SetCellLock()
CreateObjects_SetCellLock(t) ==
  /\ tpc[t] = "SetCellLock"
  /\ SetCellLock(t, "CreateObjects")
  /\ tpc' = [tpc EXCEPT ![t] = IF tobj[t].op = "AddEgg" THEN "AddEgg"
                               ELSE "mutate"]
  /\ UNCHANGED << m_cells, objStage, eggsLaid, tobj, mutating >>
  /\ UNCHANGED cocoonsSeeded
  /\ ThreadFrame

\* Osmia_Nest::AddEgg acquires the cell lock itself
AddEgg_SetCellLock(t) ==
  /\ tpc[t] = "AddEgg"
  /\ SetCellLock(t, "AddEgg")
  /\ tpc' = [tpc EXCEPT ![t] = "mutate"]
  /\ UNCHANGED << m_cells, objStage, eggsLaid, tobj, mutating >>
  /\ UNCHANGED cocoonsSeeded
  /\ ThreadFrame

\* Osmia_Nest::RemoveCell is called by st_Dying and st_Emerge with no lock
\* held.  It has no body in the sources: it may acquire the cell lock
\* itself, as the comment of AddEgg says of AddEgg, ...
RemoveCell_SetCellLock(t) ==
  /\ tpc[t] = "RemoveCell"
  /\ SetCellLock(t, "RemoveCell")
  /\ tpc' = [tpc EXCEPT ![t] = "mutate"]
  /\ UNCHANGED << m_cells, objStage, eggsLaid, tobj, mutating >>
  /\ UNCHANGED cocoonsSeeded
  /\ ThreadFrame

\* ... or leave the locking to its caller, as the comment of
\* ReplaceNestPointer says of ReplaceNestPointer, and so act on the list
\* with no lock held
RemoveCell_NoCellLock(t) ==
  /\ tpc[t] = "RemoveCell"
  /\ tpc' = [tpc EXCEPT ![t] = "mutate"]
  /\ UNCHANGED << m_cells, objStage, eggsLaid, tobj, m_cell_lock, lockSite,
                  mutating >>
  /\ UNCHANGED cocoonsSeeded
  /\ ThreadFrame

\* The thread starts to change the std::forward_list
Mutate_Begin(t) ==
  /\ tpc[t] = "mutate"
  /\ mutating' = mutating \cup {[thread |-> t, op |-> tobj[t].op]}
  /\ tpc' = [tpc EXCEPT ![t] = "mutating"]
  /\ UNCHANGED << m_cells, objStage, eggsLaid, tobj, m_cell_lock,
                  lockSite >>
  /\ UNCHANGED cocoonsSeeded
  /\ ThreadFrame

\* The change of the list is complete.  A RemoveCell that took no lock
\* returns to its caller, whose Step is over
Mutate_End(t) ==
  /\ tpc[t] = "mutating"
  /\ m_cells' \in
        CASE tobj[t].op = "AddEgg" -> {AddEgg(m_cells, tobj[t].new)}
          [] tobj[t].op = "AddCocoon" -> {AddCocoon(m_cells, tobj[t].new)}
          [] tobj[t].op = "ReplaceNestPointer" ->
               {ReplaceNestPointer(m_cells, tobj[t].obj, tobj[t].new)}
          [] tobj[t].op = "RemoveCell" -> RemoveCell(m_cells, tobj[t].obj)
  /\ mutating' = mutating \ {[thread |-> t, op |-> tobj[t].op]}
  /\ tpc' = [tpc EXCEPT ![t] =
               CASE tobj[t].op = "AddEgg" -> "AddEgg_return"
                 [] tobj[t].op \in {"AddCocoon", "ReplaceNestPointer"} ->
                      "ReleaseCellLock"
                 [] tobj[t].op = "RemoveCell" ->
                      IF m_cell_lock.owner = t THEN "RemoveCell_return"
                      ELSE "idle"]
  /\ tobj' = IF tobj[t].op = "RemoveCell" /\ m_cell_lock.owner # t
             THEN [tobj EXCEPT ![t] = NoTask] ELSE tobj
  /\ UNCHANGED << objStage, eggsLaid, m_cell_lock, lockSite >>
  /\ UNCHANGED cocoonsSeeded
  /\ ThreadFrame

\* AddEgg releases the acquisition it made and returns to CreateObjects
AddEgg_ReleaseCellLock(t) ==
  /\ tpc[t] = "AddEgg_return"
  /\ ReleaseCellLock(t, "AddEgg")
  /\ tpc' = [tpc EXCEPT ![t] = "ReleaseCellLock"]
  /\ UNCHANGED << m_cells, objStage, eggsLaid, tobj, mutating >>
  /\ UNCHANGED cocoonsSeeded
  /\ ThreadFrame

\* RemoveCell releases the lock; the Step of the dead occupant is over
RemoveCell_ReleaseCellLock(t) ==
  /\ tpc[t] = "RemoveCell_return"
  /\ ReleaseCellLock(t, "RemoveCell")
  /\ tpc' = [tpc EXCEPT ![t] = "idle"]
  /\ tobj' = [tobj EXCEPT ![t] = NoTask]
  /\ UNCHANGED << m_cells, objStage, eggsLaid, mutating >>
  /\ UNCHANGED cocoonsSeeded
  /\ ThreadFrame

\* CreateObjects: data->nest->ReleaseCellLock() and return; after the
\* laying of an egg the Step is over, after a metamorphosis the caller has
\* still to call KillThis()
CreateObjects_ReleaseCellLock(t) ==
  /\ tpc[t] = "ReleaseCellLock"
  /\ ReleaseCellLock(t, "CreateObjects")
  /\ IF tobj[t].op = "ReplaceNestPointer"
     THEN /\ tpc' = [tpc EXCEPT ![t] = "KillThis"]
          /\ UNCHANGED tobj
     ELSE /\ tpc' = [tpc EXCEPT ![t] = "idle"]
          /\ tobj' = [tobj EXCEPT ![t] = NoTask]
  /\ UNCHANGED << m_cells, objStage, eggsLaid, mutating >>
  /\ UNCHANGED cocoonsSeeded
  /\ ThreadFrame

\* st_Hatch, st_Prepupate, st_Pupate, Osmia_Pupa::st_Emerge and
\* Osmia_InCocoon::st_Emerge after CreateObjects has returned: KillThis()
\* of the caller, after which an emerging adult has still to call
\* RemoveCell(this)
Caller_KillThis(t) ==
  /\ tpc[t] = "KillThis"
  /\ objStage' = [objStage EXCEPT ![tobj[t].obj] = "killed"]
  /\ IF tobj[t].op = "RemoveCell"
     THEN /\ tpc' = [tpc EXCEPT ![t] = "RemoveCell"]
          /\ UNCHANGED tobj
     ELSE /\ tpc' = [tpc EXCEPT ![t] = "idle"]
          /\ tobj' = [tobj EXCEPT ![t] = NoTask]
  /\ UNCHANGED << m_cells, eggsLaid, m_cell_lock, lockSite, mutating >>
  /\ UNCHANGED cocoonsSeeded
  /\ ThreadFrame

\* A nest with two sibling occupants in the flight season, open or
\* closed, or the empty nest CreateNest has just made in the constructor's
\* seeding loop
InitCells ==
  /\ IndIdle /\ PolyIdle /\ GridIdle /\ CfgIdle /\ FemIdle /\ ForageIdle
  /\ \/ /\ ManagerInSeason
        /\ m_isOpen \in BOOLEAN
        /\ m_cells = << 1, 2 >>
        /\ \E s1 \in {"Egg", "Pupa"}, s2 \in {"Egg", "InCocoon"} :
              objStage = [i \in ObjectIds |->
                            IF i = 1 THEN s1
                            ELSE IF i = 2 THEN s2 ELSE "none"]
        /\ eggsLaid = 2
     \/ /\ ManagerAtStart
        /\ m_isOpen = TRUE
        /\ m_cells = << >>
        /\ objStage = [i \in ObjectIds |-> "none"]
        /\ eggsLaid = 0
  /\ cocoonsSeeded = 0 /\ lastOp = NoOp
  /\ tpc = [t \in Threads |-> "idle"]
  /\ tobj = [t \in Threads |-> NoTask]
  /\ m_cell_lock = Unlocked /\ lockSite = {} /\ mutating = {}

NextCells ==
  \E t \in Threads :
     \/ Thread_NextStage(t)
     \/ Thread_Emerge(t)
     \/ Thread_KillThis(t)
     \/ Thread_LayEgg(t)
     \/ Thread_SeedCocoon(t)
     \/ CreateObjects_SetCellLock(t)
     \/ AddEgg_SetCellLock(t)
     \/ RemoveCell_SetCellLock(t)
     \/ RemoveCell_NoCellLock(t)
     \/ Mutate_Begin(t)
     \/ Mutate_End(t)
     \/ AddEgg_ReleaseCellLock(t)
     \/ RemoveCell_ReleaseCellLock(t)
     \/ CreateObjects_ReleaseCellLock(t)
     \/ Caller_KillThis(t)

SpecCells == InitCells /\ [][NextCells]_vars

(* ------------------------------------------------------------------ *)
(* One habitat polygon: nests are created in it by the constructor's    *)
(* parallel seeding loop and, during the run, by nest-searching females;*)
(* nests are released from it                                          *)
(* ------------------------------------------------------------------ *)
\* Largest m_MaxNests of the polygon
MaxNestCapacity == 2
\* start_num_in_thread: overwintering adults seeded by each thread
StartNumInThread == 1
\* Largest number of nests created in the polygon during a run
MaxNestsMade == 4
\* A release is followed while the counter is less than this below 0
MaxCountDeficit == 2

\* Landscape::SetPolygonLock: waits until the polygon's lock is free
SetPolygonLock(t) ==
  /\ polyLock = 0
  /\ polyLock' = t

\* Landscape::ReleasePolygonLock
ReleasePolygonLock(t) == polyLock' = 0

\* OsmiaPolygonEntry::HasNestCapacity
HasNestCapacity == m_CurrentNestCount < m_MaxNests

\* OsmiaPolygonEntry::SetMaxNests
SetMaxNests(a_max) == m_MaxNests' = a_max

\* OsmiaPolygonEntry::IncrementNestCount and DecrementNestCount
IncrementNestCount == m_CurrentNestCount' = m_CurrentNestCount + 1
DecrementNestCount == m_CurrentNestCount' = m_CurrentNestCount - 1

\* Osmia_Nest_Manager::IsOsmiaNestPossible: the polygon has room for a nest
IsOsmiaNestPossible == HasNestCapacity

\* What a step on the polygon leaves alone
PolyFrame ==
  /\ UNCHANGED << today, year, m_TempToday, m_FlyingWeather,
                  m_PrePupalDevelDaysToday, unassigned, m_PreWinteringEndFlag, m_OverWinterEndFlag, tempHist >>
  /\ UNCHANGED << indVars, nestVars, obsVars >>
  /\ UNCHANGED << cellVars, m_cell_lock, lockSite, mutating, m_MaxNests,
                  gridVars, cfgVars,
                  femVars, forageVars >>

\* Constructor, seeding loop on thread t: a polygon is drawn from
\* suitable_polygons and CreateNest is called for it
Seed_CreateNest(t) ==
  /\ pc = "seeding"
  /\ tpc[t] = "idle"
  /\ toSeed[t] > 0
  /\ nestsMade < MaxNestsMade
  /\ toSeed' = [toSeed EXCEPT ![t] = @ - 1]
  /\ tpc' = [tpc EXCEPT ![t] = "CreateNest"]
  /\ UNCHANGED << pc, tobj, polyLock, m_NestList, m_CurrentNestCount,
                  nestsMade >>
  /\ PolyFrame

\* End of the constructor's parallel region
Seed_End ==
  /\ pc = "seeding"
  /\ \A t \in Threads : tpc[t] = "idle" /\ toSeed[t] = 0
  /\ pc' = "running"
  /\ UNCHANGED << tpc, tobj, toSeed, polyLock, m_NestList,
                  m_CurrentNestCount, nestsMade >>
  /\ PolyFrame

\* A nest-searching female stepped by thread t asks whether a nest is
\* possible in the polygon (IsOsmiaNestPossible takes no lock) and, if so,
\* goes on to CreateNest
Female_FindNest(t) ==
  /\ pc = "running"
  /\ tpc[t] = "idle"
  /\ nestsMade < MaxNestsMade
  /\ IsOsmiaNestPossible
  /\ tpc' = [tpc EXCEPT ![t] = "CreateNest"]
  /\ UNCHANGED << pc, tobj, toSeed, polyLock, m_NestList,
                  m_CurrentNestCount, nestsMade >>
  /\ PolyFrame

\* Osmia_Population_Manager::CreateNest: SetPolygonLock
CreateNest_SetPolygonLock(t) ==
  /\ tpc[t] = "CreateNest"
  /\ SetPolygonLock(t)
  /\ tpc' = [tpc EXCEPT ![t] = "CreateNest_locked"]
  /\ UNCHANGED << pc, tobj, toSeed, m_NestList, m_CurrentNestCount,
                  nestsMade >>
  /\ PolyFrame

\* Osmia_Nest_Manager::CreateNest: a new nest is added to the polygon's
\* nest list and the polygon's nest counter is incremented
Osmia_Nest_Manager_CreateNest(t) ==
  /\ tpc[t] = "CreateNest_locked"
  /\ nestsMade' = nestsMade + 1
  /\ m_NestList' = m_NestList \cup {nestsMade + 1}
  /\ IncrementNestCount
  /\ tpc' = [tpc EXCEPT ![t] = "CreateNest_unlock"]
  /\ UNCHANGED << pc, tobj, toSeed, polyLock >>
  /\ PolyFrame

\* Osmia_Population_Manager::CreateNest: ReleasePolygonLock and return
CreateNest_ReleasePolygonLock(t) ==
  /\ tpc[t] = "CreateNest_unlock"
  /\ ReleasePolygonLock(t)
  /\ tpc' = [tpc EXCEPT ![t] = "idle"]
  /\ UNCHANGED << pc, tobj, toSeed, m_NestList, m_CurrentNestCount,
                  nestsMade >>
  /\ PolyFrame

\* Thread t calls ReleaseOsmiaNest for a nest made in the polygon.  The
\* call has no caller in the sources and no test of its own: the nest may
\* be in the list, may have left it already, and may be the one another
\* thread is releasing
Call_ReleaseOsmiaNest(t) ==
  /\ pc = "running"
  /\ tpc[t] = "idle"
  /\ m_CurrentNestCount + MaxCountDeficit > 0
  /\ \E n \in 1 .. nestsMade :
        tobj' = [tobj EXCEPT ![t] = [obj |-> n, op |-> "ReleaseOsmiaNest",
                                     new |-> 0]]
  /\ tpc' = [tpc EXCEPT ![t] = "ReleaseOsmiaNest"]
  /\ UNCHANGED << pc, toSeed, polyLock, m_NestList, m_CurrentNestCount,
                  nestsMade >>
  /\ PolyFrame

\* Osmia_Population_Manager::ReleaseOsmiaNest: SetPolygonLock
ReleaseOsmiaNest_SetPolygonLock(t) ==
  /\ tpc[t] = "ReleaseOsmiaNest"
  /\ SetPolygonLock(t)
  /\ tpc' = [tpc EXCEPT ![t] = "ReleaseOsmiaNest_locked"]
  /\ UNCHANGED << pc, tobj, toSeed, m_NestList, m_CurrentNestCount,
                  nestsMade >>
  /\ PolyFrame

\* Osmia_Nest_Manager::ReleaseOsmiaNest: the nest is removed from the
\* polygon's nest list and the polygon's nest counter is decremented.  It
\* has no body in the sources and DecrementNestCount has no test: for a
\* nest that is not in the list the counter is lowered or left alone
Osmia_Nest_Manager_ReleaseOsmiaNest(t) ==
  /\ tpc[t] = "ReleaseOsmiaNest_locked"
  /\ m_NestList' = m_NestList \ {tobj[t].obj}
  /\ \/ DecrementNestCount
     \/ tobj[t].obj \notin m_NestList /\ UNCHANGED m_CurrentNestCount
  /\ tpc' = [tpc EXCEPT ![t] = "ReleaseOsmiaNest_unlock"]
  /\ UNCHANGED << pc, tobj, toSeed, polyLock, nestsMade >>
  /\ PolyFrame

\* Osmia_Population_Manager::ReleaseOsmiaNest: ReleasePolygonLock
ReleaseOsmiaNest_ReleasePolygonLock(t) ==
  /\ tpc[t] = "ReleaseOsmiaNest_unlock"
  /\ ReleasePolygonLock(t)
  /\ tpc' = [tpc EXCEPT ![t] = "idle"]
  /\ tobj' = [tobj EXCEPT ![t] = NoTask]
  /\ UNCHANGED << pc, toSeed, m_NestList, m_CurrentNestCount, nestsMade >>
  /\ PolyFrame

\* The nest manager, in the serial part of a day (UpdateOsmiaNesting from
\* DoFirst, no thread in a Step), gives the polygon a new capacity through
\* the public setter, which does not look at the counter
OsmiaPolygonEntry_SetMaxNests ==
  /\ pc = "running"
  /\ \A t \in Threads : tpc[t] = "idle"
  /\ \E a_max \in 0 .. MaxNestCapacity :
        a_max # m_MaxNests /\ SetMaxNests(a_max)
  /\ UNCHANGED << mgrVars, indVars, nestVars, obsVars >>
  /\ UNCHANGED << cellVars, threadVars, polyLock, m_NestList,
                  m_CurrentNestCount, toSeed, nestsMade, gridVars, cfgVars,
                  femVars, forageVars >>

\* Osmia_Population_Manager::DoFirst between two parallel Step loops, no
\* thread being inside CreateNest or ReleaseOsmiaNest: UpdateOsmiaNesting
\* goes through the polygon's nests
Poly_DoFirst ==
  /\ pc = "running"
  /\ \A u \in Threads : tpc[u] = "idle"
  /\ \E t \in Temps : DoFirst(t)
  /\ UNCHANGED << pc, today, year, m_PreWinteringEndFlag,
                  m_OverWinterEndFlag, tempHist >>
  /\ UNCHANGED << indVars, nestVars, obsVars >>
  /\ DoFirstFrame

\* The polygon at the start of the constructor's seeding loop, its entry
\* filled by InitOsmiaBeeNesting and no nest in it yet: it is in
\* suitable_polygons, so it has room for at least one nest
InitPoly ==
  /\ pc = "seeding" /\ ManagerAtStart /\ NoIndividual /\ runLength = 0
  /\ m_isOpen = TRUE
  /\ CellsIdle /\ GridIdle /\ CfgIdle /\ FemIdle /\ ForageIdle
  /\ tpc = [t \in Threads |-> "idle"]
  /\ tobj = [t \in Threads |-> NoTask]
  /\ m_cell_lock = Unlocked /\ lockSite = {} /\ mutating = {}
  /\ polyLock = 0 /\ m_NestList = {} /\ m_CurrentNestCount = 0
  /\ nestsMade = 0
  /\ m_MaxNests \in 1 .. MaxNestCapacity
  /\ toSeed = [t \in Threads |-> StartNumInThread]

NextPoly ==
  \/ Seed_End
  \/ OsmiaPolygonEntry_SetMaxNests
  \/ Poly_DoFirst
  \/ \E t \in Threads :
        \/ Seed_CreateNest(t)
        \/ Female_FindNest(t)
        \/ CreateNest_SetPolygonLock(t)
        \/ Osmia_Nest_Manager_CreateNest(t)
        \/ CreateNest_ReleasePolygonLock(t)
        \/ Call_ReleaseOsmiaNest(t)
        \/ ReleaseOsmiaNest_SetPolygonLock(t)
        \/ Osmia_Nest_Manager_ReleaseOsmiaNest(t)
        \/ ReleaseOsmiaNest_ReleasePolygonLock(t)

SpecPoly == InitPoly /\ [][NextPoly]_vars

(* ------------------------------------------------------------------ *)
(* One cell of the female density grid, updated by the females that     *)
(* two worker threads step in parallel (m_is_paralleled = true)         *)
(* ------------------------------------------------------------------ *)
\* Largest number of grid updates made by one thread
MaxGridOps == 3

\* What is recorded of a thread: the updates it has made, the females it
\* has added and not yet removed since the last reset, and whether it has
\* removed one it had not added
NoGridWork == [done |-> 0, mine |-> 0, unpaired |-> FALSE]

\* What a step on the grid leaves alone
GridFrame ==
  /\ UNCHANGED << mgrVars, indVars, nestVars, obsVars >>
  /\ UNCHANGED << cellVars, m_cell_lock, lockSite, mutating, polyVars,
                  cfgVars, femVars, forageVars >>

\* m_FemaleDensityGrid[index]++, called from the Step of a female: the
\* value of the cell is read ...
AddToDensityGrid_Load(t) ==
  /\ pc # "first"
  /\ tpc[t] = "idle"
  /\ tobj[t].done < MaxGridOps
  /\ treg' = [treg EXCEPT ![t] = m_FemaleDensityGrid]
  /\ tpc' = [tpc EXCEPT ![t] = "AddToDensityGrid"]
  /\ UNCHANGED << m_FemaleDensityGrid, gridOps, tobj >>
  /\ GridFrame

\* ... and the value read plus one is written back
AddToDensityGrid_Store(t) ==
  /\ tpc[t] = "AddToDensityGrid"
  /\ m_FemaleDensityGrid' = treg[t] + 1
  /\ gridOps' = gridOps + 1
  /\ tobj' = [tobj EXCEPT ![t].done = @ + 1, ![t].mine = @ + 1]
  /\ tpc' = [tpc EXCEPT ![t] = "idle"]
  /\ UNCHANGED treg
  /\ GridFrame

\* m_FemaleDensityGrid[a_index]--, whatever the cell holds: the value of
\* the cell is read ...
RemoveFromDensityGrid_Load(t) ==
  /\ pc # "first"
  /\ tpc[t] = "idle"
  /\ tobj[t].done < MaxGridOps
  /\ treg' = [treg EXCEPT ![t] = m_FemaleDensityGrid]
  /\ tpc' = [tpc EXCEPT ![t] = "RemoveFromDensityGrid"]
  /\ UNCHANGED << m_FemaleDensityGrid, gridOps, tobj >>
  /\ GridFrame

\* ... and the value read minus one is written back
RemoveFromDensityGrid_Store(t) ==
  /\ tpc[t] = "RemoveFromDensityGrid"
  /\ m_FemaleDensityGrid' = treg[t] - 1
  /\ gridOps' = gridOps - 1
  /\ tobj' = [tobj EXCEPT ![t].done = @ + 1,
                          ![t].mine = IF @ > 0 THEN @ - 1 ELSE 0,
                          ![t].unpaired = @ \/ tobj[t].mine = 0]
  /\ tpc' = [tpc EXCEPT ![t] = "idle"]
  /\ UNCHANGED treg
  /\ GridFrame

\* After ClearDensityGrid: the cell holds 0 and no female is counted
InitGrid ==
  /\ pc = "grid" /\ TrackedIdle
  /\ m_isOpen = TRUE
  /\ CellsIdle /\ PolyIdle /\ CfgIdle /\ FemIdle /\ ForageIdle
  /\ tpc = [t \in Threads |-> "idle"]
  /\ tobj = [t \in Threads |-> NoGridWork]
  /\ treg = [t \in Threads |-> 0]
  /\ m_cell_lock = Unlocked /\ lockSite = {} /\ mutating = {}
  /\ m_FemaleDensityGrid = 0 /\ gridOps = 0

NextGrid ==
  \E t \in Threads :
     \/ AddToDensityGrid_Load(t)
     \/ AddToDensityGrid_Store(t)
     \/ RemoveFromDensityGrid_Load(t)
     \/ RemoveFromDensityGrid_Store(t)

SpecGrid == InitGrid /\ [][NextGrid]_vars

(* ------------------------------------------------------------------ *)
(* The cell of the density grid over several days: DoFirst clears the    *)
(* grid before the females of the day are stepped                       *)
(* ------------------------------------------------------------------ *)
\* Number of simulated days for which the cell is followed
MaxGridDays == 2

\* A morning of the flight season before DoFirst: the weather of the day
\* before still published, both flags cleared by DoLast on the first of
\* June, the worker threads idle, the cell empty
InitGridDay ==
  /\ pc = "first" /\ today = LayDay /\ year = 0
  /\ m_TempToday \in Temps
  /\ unassigned = {}
  /\ m_FlyingWeather = GetFlyingHours(m_TempToday)
  /\ m_PrePupalDevelDaysToday
        = m_PrePupalDevelRates[PrePupalTempIndex(m_TempToday) + 1]
  /\ m_PreWinteringEndFlag = FALSE /\ m_OverWinterEndFlag = FALSE
  /\ tempHist = << >>
  /\ NoIndividual /\ runLength = MaxGridDays
  /\ m_isOpen = TRUE
  /\ CellsIdle /\ PolyIdle /\ CfgIdle /\ FemIdle /\ ForageIdle
  /\ tpc = [t \in Threads |-> "idle"]
  /\ tobj = [t \in Threads |-> NoGridWork]
  /\ treg = [t \in Threads |-> 0]
  /\ m_cell_lock = Unlocked /\ lockSite = {} /\ mutating = {}
  /\ m_FemaleDensityGrid = 0 /\ gridOps = 0

\* Start of a simulated day: no thread is in a Step, the manager's DoFirst
\* runs, and the females count again only once they have reported their
\* location
GridDay_Begin ==
  /\ pc = "first"
  /\ WithinHorizon
  /\ \A t \in Threads : tpc[t] = "idle"
  /\ \E t \in TodaysTemps : DoFirst(t)
  /\ pc' = "step"
  /\ simDay' = simDay + 1
  /\ tobj' = [t \in Threads |-> NoGridWork]
  /\ UNCHANGED << today, year, m_PreWinteringEndFlag, m_OverWinterEndFlag,
                  tempHist >>
  /\ UNCHANGED << indVars, nestVars >>
  /\ UNCHANGED << bornDay, mortTestsToday, developsToday, wmTests, wmResult,
                  readyCount, counterSets, emergeCalls, trialDraw,
                  sealedAtLaying, runLength >>
  /\ UNCHANGED << cellVars, tpc, m_cell_lock, lockSite, mutating, polyLock,
                  toSeed, nestsMade, treg, cfgVars, femVars, forageVars >>

\* End of a simulated day: every Step of the parallel loop has returned,
\* the manager's DoLast runs and the calendar advances
GridDay_End ==
  /\ pc = "step"
  /\ \A t \in Threads : tpc[t] = "idle"
  /\ DoLast
  /\ tempHist' = RecordTemp
  /\ today' = (today + 1) % DaysInYear
  /\ year' = IF today + 1 = DaysInYear THEN year + 1 ELSE year
  /\ pc' = "first"
  /\ UNCHANGED << m_TempToday, m_FlyingWeather, m_PrePupalDevelDaysToday, unassigned >>
  /\ UNCHANGED << indVars, nestVars, obsVars, popVars >>

NextGridDay ==
  \/ GridDay_Begin
  \/ NextGrid
  \/ GridDay_End

SpecGridDay == InitGridDay /\ [][NextGridDay]_vars

(* ================================================================== *)
(* Properties                                                          *)
(* ================================================================== *)
\* Number of the 100 equally likely draws on which the test kills
KillCount(dd) == Cardinality({r \in PercentDraws : WinterMortality(r, dd)})
\* slope * DD + const clamped to [0, 1], in 1/1000
ClampedKillPermille(dd) ==
  LET raw == m_OsmiaInCocoonWinterMortSlope * dd
               + m_OsmiaInCocoonWinterMortConst
  IN  IF raw < 0 THEN 0 ELSE IF raw > 1000 THEN 1000 ELSE raw

\* C1: the winter mortality test kills with probability
\* slope * prewinterDD + const clamped to [0, 1]; with 150 pre-wintering
\* degree-days it kills on every trial.  (The code compares a draw from
\* 0..99 with the unclamped value, so this does not hold.)
C1_ClampedKillProbability ==
  pc = "tried" =>
    /\ KillCount(m_DDPrewinter) * 10 = ClampedKillPermille(m_DDPrewinter)
    /\ (m_DDPrewinter = 1500 => wmResult = "died")

\* C2: while the nest is open an Egg, Larva or Pupa does not develop: a
\* step leaves its age and degree-day sum unchanged, runs no mortality
\* test and does not move it to the metamorphosis state.  (The code ages
\* and accumulates whatever the nest's state.)
C2_NoDevelopmentWhileNestOpen ==
  [][ (m_isOpen /\ Alive /\ stage \in {"Egg", "Larva", "Pupa"}
         /\ stage' = stage)
      => /\ m_Age' = m_Age
         /\ m_AgeDegrees' = m_AgeDegrees
         /\ mortTestsToday' <= mortTestsToday
         /\ m_CurrentOState' # "NextStage" ]_vars

\* C3: for Egg, Larva and Pupa the metamorphosis is carried out in the
\* same day's tick in which Develop finds the sum above the total: no day
\* ends with a live individual waiting in the metamorphosis state.  (The
\* code ends the day's Step after st_Develop.)
C3_MetamorphosisSameTick ==
  (pc = "first" /\ Alive /\ stage \in {"Egg", "Larva", "Pupa"})
    => m_CurrentOState # "NextStage"

\* An egg laid in a nest sealed from the start, at a constant 20 C, that
\* no mortality test has killed
HotSealedEggScenario ==
  /\ sealedAtLaying
  /\ m_CurrentOState # "Die"
  /\ m_TempToday = 200
  /\ today < CoolingDay
  /\ year = 0

\* C4: such an egg (threshold 0, total 86 DD, surviving the mortality
\* tests) has accumulated 20 DD per day and the Larva is created on
\* simulated day 5, not earlier and not later.  (In the code the Larva
\* is created on day 6.)
C4_EggHatchesOnDayFive ==
  HotSealedEggScenario =>
    /\ (stage = "Egg" /\ Alive /\ pc = "first")
          => (simDay < 5 /\ m_AgeDegrees = 200 * simDay)
    /\ (stage = "Larva") => (bornDay = 5)

\* C5: in any one day, however many times Step is called and however
\* many states it chains through, one individual undergoes at most one
\* daily mortality test and at most one accumulation of degree-days (or
\* of the prepupal day counter).
C5_OneTestOneAccumulationPerDay ==
  mortTestsToday <= 1 /\ developsToday <= 1

\* A day on which Step was called for the InitialState, then again for
\* Develop, with both the test and the accumulation made
C5_Witness ==
  /\ stage = "Larva" /\ bornDay = simDay
  /\ mortTestsToday = 1 /\ developsToday = 1
  /\ m_StepDone


\* C6: an overwintering adult whose emergence counter has not run out when
\* the calendar reaches the first of June is forced to die: none that has
\* been in pre-emergence (its counter was set) is alive and un-emerged from
\* that date on, whatever the temperatures around it.  (The code tests the
\* date only on a day at least as warm as the emergence threshold.)
C6_NoSurvivorAfterCutoff ==
  ~ ( /\ stage = "InCocoon" /\ Alive
      /\ m_CurrentOState \in {"InitialState", "Develop"}
      /\ counterSets >= 1
      /\ today >= June )

\* Values m_emergenceday.Geti() can return
EmergenceDayRange == 0 .. 10

\* C7: the emergence counter is set exactly once, in pre-emergence, to
\* the linear function of the winter degree-days plus the individual
\* offset plus the nest's delay, and nothing changes the counter before
\* it has been set.  (A survivor of the June cutoff, see C6, has it set
\* again on the next March+1.)
C7_CounterSetExactlyOnce ==
  [][ /\ (counterSets' # counterSets)
         => /\ counterSets = 0
            /\ InPreEmergenceBranch
            /\ \E g \in EmergenceDayRange :
                  m_emergencecounter'
                    = EmergCountLinear(m_AgeDegrees) + g + m_aspectdelay
      /\ (m_emergencecounter' # m_emergencecounter) => counterSets' >= 1
    ]_vars

\* C8: from the day after the first of March to the June cutoff every
\* live overwintering adult is in pre-emergence: its daily development
\* runs the counter logic and adds nothing to the pre-wintering or the
\* wintering degree-day sum.  (In the code pre-emergence is reached only
\* if the autumn cooling pattern has ended pre-wintering.)
C8_PreEmergenceFromMarch ==
  [][ ( /\ stage = "InCocoon" /\ Alive
        /\ today \in (March + 1) .. (June - 1)
        /\ developsToday' = developsToday + 1 )
      => /\ InPreEmergenceBranch
         /\ m_DDPrewinter' = m_DDPrewinter
         /\ m_AgeDegrees' = m_AgeDegrees ]_vars

\* The day's development lowered the counter to below 1
ReachedReadiness ==
  /\ counterSets' = counterSets
  /\ m_emergencecounter' = m_emergencecounter - 1
  /\ m_emergencecounter' < 1

\* C9: the winter mortality test is performed exactly once if the
\* individual reaches emergence readiness (a decrement brings the counter
\* below 1) and never otherwise; an individual that failed it goes to
\* death, one that passed goes to the emergence action.
C9_WinterMortalityOnceAtReadiness ==
  [][ /\ (wmTests' # wmTests)
         => /\ wmTests = 0 /\ wmTests' = 1
            /\ ReachedReadiness
      /\ ReachedReadiness => (wmTests' = wmTests + 1)
      /\ (wmResult' = "died") => (m_CurrentOState' = "Die")
      /\ (wmResult' = "passed" /\ emergeCalls' = 0)
            => (m_CurrentOState' = "NextStage")
      /\ (wmResult' = "passed") => emergeCalls' <= 1
      /\ (wmResult' = "none") => (wmTests' = 0 /\ emergeCalls' = 0)
    ]_vars

\* An individual that took the test once, failed it and was removed
C9_Witness ==
  /\ stage = "InCocoon" /\ wmTests = 1 /\ wmResult = "died"
  /\ readyCount = 1 /\ ~Alive /\ ~inNest

\* C10: once the counter has been set, the development of a day at least
\* as warm as the emergence threshold lowers it by exactly 1, that of a
\* colder day leaves it unchanged, and readiness is reached on the first
\* day a decrement brings it below 1.  (For a survivor of the June
\* cutoff, see C6, warm days no longer lower the counter.)
C10_CounterDecrement ==
  [][ ( /\ stage = "InCocoon" /\ Alive
        /\ counterSets >= 1
        /\ developsToday' = developsToday + 1 )
      => /\ m_emergencecounter'
              = IF m_TempToday >= m_OsmiaInCocoonEmergenceTempThreshold
                THEN m_emergencecounter - 1 ELSE m_emergencecounter
         /\ (readyCount' = readyCount + 1) <=> (m_emergencecounter' < 1
                /\ m_emergencecounter' # m_emergencecounter) ]_vars

(* ------------------------------------------------------------------ *)
(* The nest's cell list                                                *)
(* ------------------------------------------------------------------ *)
\* C12: the number of cells of a nest equals the number of eggs ever laid
\* in it, whatever metamorphoses, deaths and emergences have happened.
C12_CellCountIsEggsLaid ==
  GetCellCount = eggsLaid

\* C16: a metamorphosis puts the successor object into the cell of its
\* predecessor: afterwards the successor is in the list at the position
\* the predecessor had, the predecessor is not in the list, and the
\* number of cells is unchanged.
C16_SuccessorTakesTheCell ==
  [][ (lastOp' # lastOp /\ lastOp'.op = "Metamorphosis")
      => /\ Len(m_cells') = Len(m_cells)
         /\ lastOp'.new \in Range(m_cells')
         /\ lastOp'.old \notin Range(m_cells')
         /\ \A k \in 1 .. Len(m_cells) :
               m_cells'[k] = IF m_cells[k] = lastOp'.old
                             THEN lastOp'.new ELSE m_cells[k]
         /\ \E k \in 1 .. Len(m_cells) : m_cells[k] = lastOp'.old ]_vars

\* A pupa has just become an adult in its cocoon, next to a sibling
C16_Witness ==
  /\ lastOp.op = "Metamorphosis"
  /\ objStage[lastOp.new] = "InCocoon"
  /\ lastOp.new \in Range(m_cells)
  /\ Len(m_cells) = 2

AddingOrReplacing ==
  {m \in mutating : m.op \in {"AddEgg", "AddCocoon", "ReplaceNestPointer"}}

C17_NestCountWithinCapacity ==
  m_CurrentNestCount <= m_MaxNests

(* ------------------------------------------------------------------ *)
(* The female density grid                                             *)
(* ------------------------------------------------------------------ *)
\* C20: no increment or decrement of the female density grid is lost
\* under parallel stepping: whenever no update is in progress, the cell
\* holds the number of increments made minus the number of decrements.
C20_NoLostGridUpdate ==
  (\A t \in Threads : tpc[t] = "idle") => m_FemaleDensityGrid = gridOps

(* ------------------------------------------------------------------ *)
(* One day of development of an egg with a given degree-day sum        *)
(* ------------------------------------------------------------------ *)
\* An egg some days old, about to take the Step of a day whose DoFirst
\* has run
InitHatch ==
  /\ PopIdle
  /\ pc = "step" /\ today = LayDay + 5 /\ year = 0
  /\ m_TempToday \in Temps
  /\ unassigned = {}
  /\ m_FlyingWeather = GetFlyingHours(m_TempToday)
  /\ m_PrePupalDevelDaysToday
        = m_PrePupalDevelRates[PrePupalTempIndex(m_TempToday) + 1]
  /\ m_PreWinteringEndFlag = FALSE /\ m_OverWinterEndFlag = FALSE
  /\ tempHist = << >>
  /\ stage = "Egg" /\ m_CurrentOState = "Develop"
  /\ m_StepDone = FALSE /\ m_CurrentStateNo = 0
  /\ m_Age = 5 /\ m_AgeUnset = FALSE
  /\ m_AgeDegrees \in {a \in {10 * d : d \in 0 .. MaxEggTrialDD} :
                          a <= m_OsmiaEggDevelTotalDD}
  /\ m_AgeDegreesLow = 0
  /\ m_DDPrewinter = 0 /\ m_emergencecounter = InitialEmergenceCounter
  /\ m_Sex = TRUE /\ m_ParasitoidStatus = "Unparasitised"
  /\ m_Mass = 10000
  /\ m_myOsmiaPrepupaDevelTotalDays = 0
  /\ m_isOpen \in BOOLEAN /\ m_aspectdelay = 0
  /\ inNest = TRUE
  /\ sealedAtLaying = FALSE /\ runLength = 6
  /\ simDay = 6 /\ bornDay = 0
  /\ mortTestsToday = 0 /\ developsToday = 0
  /\ wmTests = 0 /\ wmResult = "none" /\ readyCount = 0
  /\ counterSets = 0 /\ emergeCalls = 0 /\ trialDraw = -1

NextHatch == Osmia_Egg_Step

SpecHatch == InitHatch /\ [][NextHatch]_vars

(* ------------------------------------------------------------------ *)
(* One call of Step on an object in any state of TTypeOfOsmiaState     *)
(* ------------------------------------------------------------------ *)
\* enum TTypeOfOsmiaState
TTypeOfOsmiaState ==
  {"InitialState", "Develop", "NextStage", "Disperse", "NestProvisioning",
   "ReproductiveBehaviour", "Emerged", "Die"}
\* The case labels of the Step of Egg, Larva, Prepupa, Pupa and InCocoon
HandledStates == {"InitialState", "Develop", "NextStage", "Die"}

\* An object of one of the five stages in the nest, not yet stepped
\* today, with any value of the state enumeration in m_CurrentOState
InitStep ==
  /\ PopIdle
  /\ pc = "step" /\ today = LayDay + 5 /\ year = 0
  /\ m_TempToday \in Temps
  /\ unassigned = {}
  /\ m_FlyingWeather = GetFlyingHours(m_TempToday)
  /\ m_PrePupalDevelDaysToday
        = m_PrePupalDevelRates[PrePupalTempIndex(m_TempToday) + 1]
  /\ m_PreWinteringEndFlag = FALSE /\ m_OverWinterEndFlag = FALSE
  /\ tempHist = << >>
  /\ stage \in InNestStages /\ m_CurrentOState \in TTypeOfOsmiaState
  /\ m_StepDone = FALSE /\ m_CurrentStateNo = 0
  /\ m_AgeUnset = FALSE /\ m_Age = 5 /\ m_AgeDegrees = 0 /\ m_AgeDegreesLow = 0
  /\ m_DDPrewinter = 0 /\ m_emergencecounter = InitialEmergenceCounter
  /\ m_Sex \in BOOLEAN /\ m_ParasitoidStatus = "Unparasitised"
  /\ m_Mass = 10000
  /\ m_myOsmiaPrepupaDevelTotalDays
        \in IF stage \in {"Prepupa", "Pupa", "InCocoon"}
            THEN PrepupaTargets ELSE {0}
  /\ m_isOpen = FALSE /\ m_aspectdelay = 0
  /\ inNest = TRUE
  /\ sealedAtLaying = FALSE /\ runLength = 6
  /\ simDay = 6 /\ bornDay = 0
  /\ mortTestsToday = 0 /\ developsToday = 0
  /\ wmTests = 0 /\ wmResult = "none" /\ readyCount = 0
  /\ counterSets = 0 /\ emergeCalls = 0 /\ trialDraw = -1

NextStep ==
  \/ Osmia_Egg_Step
  \/ Osmia_Larva_Step
  \/ Osmia_Prepupa_Step
  \/ Osmia_Pupa_Step
  \/ Osmia_InCocoon_Step

SpecStep == InitStep /\ [][NextStep]_vars

(* ------------------------------------------------------------------ *)
(* The population manager's constructor: static initialisation, Init(), *)
(* the seeding of the first cocoon, the rate table, then the daily loop *)
(* ------------------------------------------------------------------ *)
MaxCtorDays == 40

\* double Osmia_Base::m_... = 0 and an empty m_PrePupalDevelRates before
\* the constructor body runs; no object exists yet, and the manager's day
\* values and seasonal flags are as operator new left them (unassigned)
InitCtor ==
  /\ CellsIdle /\ ThreadsIdle /\ PolyIdle /\ GridIdle
  /\ FemIdle /\ ForageIdle
  /\ staticParams = StaticDefaults
  /\ pc = "ctor_init" /\ today = 0 /\ year = 0
  /\ m_TempToday = UnsetTemp
  /\ unassigned = DayValueMembers \cup SeasonFlagMembers
  /\ m_FlyingWeather = 0 /\ m_PrePupalDevelDaysToday = 0
  /\ m_PreWinteringEndFlag = FALSE /\ m_OverWinterEndFlag = FALSE
  /\ tempHist = << >>
  /\ stage = "none" /\ m_CurrentOState = "InitialState"
  /\ m_StepDone = FALSE /\ m_CurrentStateNo = 0
  /\ m_AgeUnset = FALSE /\ m_Age = 0 /\ m_AgeDegrees = 0 /\ m_AgeDegreesLow = 0
  /\ m_DDPrewinter = 0 /\ m_emergencecounter = InitialEmergenceCounter
  /\ m_Sex = TRUE /\ m_Mass = 0 /\ m_ParasitoidStatus = "Unparasitised"
  /\ m_myOsmiaPrepupaDevelTotalDays = 0
  /\ m_isOpen = FALSE /\ m_aspectdelay \in 0 .. MaxAspectDelay
  /\ inNest = FALSE
  /\ sealedAtLaying = FALSE /\ runLength = MaxCtorDays
  /\ simDay = 0 /\ bornDay = 0
  /\ mortTestsToday = 0 /\ developsToday = 0
  /\ wmTests = 0 /\ wmResult = "none" /\ readyCount = 0
  /\ counterSets = 0 /\ emergeCalls = 0 /\ trialDraw = -1

\* What a constructor step leaves alone unless it says otherwise
CtorFrame ==
  /\ UNCHANGED << today, year, m_TempToday, m_FlyingWeather,
                  m_PrePupalDevelDaysToday, tempHist >>
  /\ UNCHANGED << m_CurrentOState, m_StepDone, m_CurrentStateNo,
                  m_AgeDegreesLow, m_DDPrewinter, m_emergencecounter, m_Sex,
                  m_ParasitoidStatus >>
  /\ UNCHANGED << m_aspectdelay, obsVars >>
  /\ UNCHANGED << cellVars, threadVars, polyVars, gridVars, femVars,
                  forageVars >>

\* Osmia_Base::SetParameterValues: every static parameter takes its
\* configured value; the rate table is not among them
SetParameterValues_Skipped == staticParams
SetParameterValues ==
  [ConfiguredParams EXCEPT
     !.m_PrePupalDevelRates = staticParams.m_PrePupalDevelRates]

\* Osmia_Population_Manager::Init, called first by the constructor, and
\* the two flag assignments that follow the call
Osmia_Population_Manager_Init ==
  /\ pc = "ctor_init"
  /\ pc' = "ctor_seed"
  /\ staticParams' = SetParameterValues
  /\ m_PreWinteringEndFlag' = TRUE
  /\ m_OverWinterEndFlag' = FALSE
  /\ unassigned' = unassigned \ SeasonFlagMembers
  /\ UNCHANGED << stage, m_Age, m_AgeUnset, m_AgeDegrees, m_Mass,
                  m_myOsmiaPrepupaDevelTotalDays, m_isOpen, inNest >>
  /\ CtorFrame

\* The seeding loop, sp->nest = CreateNest(...): a new, open, empty nest
Ctor_CreateNest ==
  /\ pc = "ctor_seed"
  /\ pc' = "ctor_new"
  /\ m_isOpen' = TRUE
  /\ UNCHANGED << stage, m_Age, m_AgeUnset, m_AgeDegrees, m_Mass,
                  m_myOsmiaPrepupaDevelTotalDays, inNest, staticParams,
                  m_PreWinteringEndFlag, m_OverWinterEndFlag,
                  unassigned >>
  /\ CtorFrame

\* The seeding loop, CreateObjects(to_OsmiaInCocoon, NULL, sp, 1) up to
\* PushIndividual: the new cocoon is in the population with the mass drawn
\* for it, sp->overwintering_degree_days of the configuration and an m_Age
\* copied from the never assigned sp->age (the Osmia_Prepupa constructor
\* draws the development time); no cell refers to it yet
Ctor_Seed ==
  /\ pc = "ctor_new"
  /\ pc' = "ctor_addcocoon"
  /\ stage' = "InCocoon"
  /\ \E u \in SeedDraws : m_Mass' = SeededMass(u)
  /\ m_Age' = 0 /\ m_AgeUnset' = TRUE
  /\ \E u \in PrepupaDraws :
        m_myOsmiaPrepupaDevelTotalDays' = PrepupaDevelTotalDays(u)
  /\ m_AgeDegrees' = cfg_OsmiaOverwinterDegreeDaysInitialSimu
  /\ UNCHANGED << m_isOpen, inNest, staticParams, m_PreWinteringEndFlag,
                  m_OverWinterEndFlag >>
  /\ UNCHANGED unassigned
  /\ CtorFrame

\* The rest of CreateObjects: SetCellLock, AddCocoon, ReleaseCellLock
Ctor_AddCocoon ==
  /\ pc = "ctor_addcocoon"
  /\ pc' = "ctor_setage"
  /\ inNest' = TRUE
  /\ UNCHANGED << stage, m_Age, m_AgeUnset, m_AgeDegrees, m_Mass,
                  m_myOsmiaPrepupaDevelTotalDays, m_isOpen, staticParams,
                  m_PreWinteringEndFlag, m_OverWinterEndFlag,
                  unassigned >>
  /\ CtorFrame

\* The serial loop after the seeding: SetAgeDegrees(2000) on every cocoon
Ctor_SetAgeDegrees ==
  /\ pc = "ctor_setage"
  /\ pc' = "ctor_rates"
  /\ m_AgeDegrees' = SeededAgeDegrees
  /\ UNCHANGED << stage, m_Age, m_AgeUnset, m_Mass,
                  m_myOsmiaPrepupaDevelTotalDays, m_isOpen, inNest,
                  staticParams, m_PreWinteringEndFlag, m_OverWinterEndFlag,
                  unassigned >>
  /\ CtorFrame

\* m_PrePupalDevelRates.resize(42) and its fill from the configuration,
\* the constructor's last writes before the simulation starts
Ctor_FillRates ==
  /\ pc = "ctor_rates"
  /\ pc' = "first"
  /\ staticParams' =
       [staticParams EXCEPT !.m_PrePupalDevelRates = m_PrePupalDevelRates]
  /\ UNCHANGED << stage, m_Age, m_AgeUnset, m_AgeDegrees, m_Mass,
                  m_myOsmiaPrepupaDevelTotalDays, m_isOpen, inNest,
                  m_PreWinteringEndFlag, m_OverWinterEndFlag,
                  unassigned >>
  /\ CtorFrame

NextCtor ==
  \/ Osmia_Population_Manager_Init
  \/ Ctor_CreateNest
  \/ Ctor_Seed
  \/ Ctor_AddCocoon
  \/ Ctor_SetAgeDegrees
  \/ Ctor_FillRates
  \/ Run_BeginDay
  \/ Osmia_InCocoon_Step
  \/ Run_EndDay

SpecCtor == InitCtor /\ [][NextCtor]_vars

(* ------------------------------------------------------------------ *)
(* One adult female from her emergence out of a seeded cocoon to her    *)
(* death: egg load, nest search, dispersal, egg laying, nest sealing    *)
(* ------------------------------------------------------------------ *)
m_TotalNestsPossible == 5
m_OsmiaFemaleMinEggsPerNest == 3
m_OsmiaFemaleMaxEggsPerNest == 30
m_OsmiaFindNestAttemptNo == 20

\* g_rand_uni_fnc() of CalculateEggLoad in 1/10000, and the values drawn
\* from m_eggspernestdistribution before they are constrained
EggLoadDraws == {0, 5000, 9999}
PlanDraws == {2, 8}

LiveFemaleStates == {"Dispersal", "ReproductiveBehaviour", "Die"}

\* PlanEggsPerNest: the draw constrained by the minimum, the maximum and
\* the remaining lifetime egg load
PlanEggsPerNest_Uncapped(draw, left) ==
  IF draw < m_OsmiaFemaleMinEggsPerNest THEN m_OsmiaFemaleMinEggsPerNest
  ELSE IF draw > m_OsmiaFemaleMaxEggsPerNest
       THEN m_OsmiaFemaleMaxEggsPerNest ELSE draw
PlanEggsPerNest(draw, left) ==
  LET bounded == IF draw < m_OsmiaFemaleMinEggsPerNest
                 THEN m_OsmiaFemaleMinEggsPerNest
                 ELSE IF draw > m_OsmiaFemaleMaxEggsPerNest
                      THEN m_OsmiaFemaleMaxEggsPerNest ELSE draw
  IN  IF bounded > left THEN left ELSE bounded

\* CalculateEggLoad: m_EggsToLay = int(m_TotalNestsPossible * (0.0371 *
\* m_Mass + 2.8399) + g_rand_uni_fnc() * 6 - 3), mass in hundredths of a
\* mg and u in 1/10000
CalculateEggLoad(a_mass, u) ==
  TruncDiv(m_TotalNestsPossible * (371 * a_mass + 2839900)
             + 600 * u - 3000000, 1000000)

\* Day of the first spring on which the seeded cocoon of a nest without
\* aspect delay is followed into its emergence: the winter at -2.0 C, the
\* weather warmer from the third of March on
SeededEmergenceDay == March + 8

\* The seeded cocoon in the Step of that day, st_Develop having returned
\* toOsmias_NextStage and st_Emerge being the next call: the overwintering
\* flag was set on the first of March, the winter test was passed, the
\* emergence counter has run down to 0, m_AgeDegrees is still the 2000 of
\* the constructor and m_Age has been incremented on every day so far
EmergingSeededCocoon ==
  /\ pc = "step" /\ today = SeededEmergenceDay /\ year = 0
  /\ m_TempToday \in {t \in Temps : t > m_OsmiaInCocoonOverwinteringTempThreshold}
  /\ unassigned = {}
  /\ m_FlyingWeather = GetFlyingHours(m_TempToday)
  /\ m_PrePupalDevelDaysToday
        = m_PrePupalDevelRates[PrePupalTempIndex(m_TempToday) + 1]
  /\ m_PreWinteringEndFlag = TRUE /\ m_OverWinterEndFlag = TRUE
  /\ tempHist = << >>
  /\ stage = "InCocoon" /\ m_CurrentOState = "NextStage"
  /\ m_StepDone = FALSE /\ m_CurrentStateNo = 0
  /\ m_Age = SeededEmergenceDay /\ m_AgeUnset = TRUE
  /\ m_AgeDegrees = SeededAgeDegrees /\ m_AgeDegreesLow = 0
  /\ m_DDPrewinter = 0 /\ m_emergencecounter = 0
  /\ m_Sex = TRUE /\ m_ParasitoidStatus = "Unparasitised"
  /\ m_Mass \in {SeededMass(u) : u \in SeedDraws}
  /\ m_myOsmiaPrepupaDevelTotalDays \in PrepupaTargets
  /\ m_isOpen = TRUE /\ m_aspectdelay = 0 /\ inNest = TRUE
  /\ simDay = SeededEmergenceDay + 1 /\ bornDay = 0
  /\ mortTestsToday = 0 /\ developsToday = 0
  /\ wmTests = 1 /\ wmResult = "passed" /\ readyCount = 1
  /\ counterSets = 1 /\ emergeCalls = 0 /\ trialDraw = -1
  /\ sealedAtLaying = FALSE /\ runLength = MaxSimDays

\* A cocoon seeded by the manager's constructor, about to emerge from the
\* nest made for it; no female made that nest
InitFemale ==
  /\ CellsIdle /\ ThreadsIdle /\ PolyIdle /\ GridIdle /\ CfgIdle
  /\ FemIdle /\ ForageIdle
  /\ EmergingSeededCocoon

\* What a step of the female leaves alone unless it says otherwise
FemaleFrame ==
  /\ UNCHANGED << mgrVars, m_isOpen, m_aspectdelay, obsVars >>
  /\ UNCHANGED << cellVars, threadVars, polyVars, gridVars, cfgVars,
                  forageVars >>
  /\ UNCHANGED << m_Sex, m_ParasitoidStatus >>

FemaleSelf ==
  /\ UNCHANGED << stage, m_CurrentOState, m_StepDone, m_CurrentStateNo,
                  m_Age, m_AgeUnset, m_Mass, inNest >>
  /\ CocoonFields

\* Osmia_InCocoon::st_Emerge, the female branch, and the constructor of
\* Osmia_Female: CalculateEggLoad, m_ToDisperse set at emergence
Osmia_Female_Emerge ==
  /\ pc = "step" /\ stage = "InCocoon" /\ femState = "none"
  /\ m_CurrentOState = "NextStage" /\ ~m_StepDone
  /\ EmergeBranch = "Female"
  /\ stage' = "Female"
  /\ m_CurrentOState' = "InitialState"
  /\ m_Age' = 0 /\ m_AgeUnset' = FALSE
  /\ m_Mass' = FemaleMassFromProvMass(m_Mass)
  /\ inNest' = FALSE
  /\ \E u \in EggLoadDraws, draw \in PlanDraws :
       LET load == CalculateEggLoad(FemaleMassFromProvMass(m_Mass), u) IN
         /\ m_EggsToLay' = load
         /\ eggLoad' = load
         /\ m_EggsThisNest' = PlanEggsPerNest(draw, load) + 2
  /\ m_ToDisperse' = TRUE
  /\ femState' = "Dispersal"
  /\ Osmia_Female_ctor
  /\ UNCHANGED << m_StepDone, m_CurrentStateNo >>
  /\ UNCHANGED << nestFindAttempts, m_OurNest, nestIsOpen, eggsLaidInLife >>
  /\ FemaleFrame

\* The daily mortality test of the adult: a draw below m_OsmiaFemaleBckMort
\* sends her to the dying state
Osmia_Female_DailyMortality ==
  /\ femState \in {"Dispersal", "ReproductiveBehaviour"}
  /\ femState' = "Die"
  /\ UNCHANGED << m_EggsToLay, m_EggsThisNest, m_ToDisperse,
                  nestFindAttempts, m_OurNest, nestIsOpen, eggLoad,
                  eggsLaidInLife >>
  /\ FemaleSelf /\ FemaleFrame

\* Osmia_Female::st_Dispersal: she moves to a new area and starts the
\* local search afresh
Osmia_Female_st_Dispersal ==
  /\ femState = "Dispersal"
  /\ femState' = "ReproductiveBehaviour"
  /\ m_ToDisperse' = FALSE
  /\ nestFindAttempts' = 0
  /\ UNCHANGED << m_EggsToLay, m_EggsThisNest, m_OurNest, nestIsOpen,
                  eggLoad, eggsLaidInLife >>
  /\ FemaleSelf /\ FemaleFrame

\* Osmia_Female::FindNestLocation from st_ReproductiveBehaviour, one
\* attempt: a cavity is claimed, or the failure is counted and the last
\* allowed failure sets m_ToDisperse and sends her to dispersal
FindNestLocation_Unbounded(found) ==
  IF found
  THEN /\ nestIsOpen' = Append(nestIsOpen, TRUE)
       /\ m_OurNest' = Len(nestIsOpen) + 1
       /\ m_EggsThisNest' = m_EggsThisNest - 2
       /\ nestFindAttempts' = 0
       /\ UNCHANGED << femState, m_ToDisperse >>
  ELSE /\ nestFindAttempts' = nestFindAttempts + 1
       /\ UNCHANGED << femState, m_ToDisperse, nestIsOpen, m_OurNest,
                       m_EggsThisNest >>
FindNestLocation(found) ==
  IF found
  THEN /\ nestIsOpen' = Append(nestIsOpen, TRUE)
       /\ m_OurNest' = Len(nestIsOpen) + 1
       /\ m_EggsThisNest' = m_EggsThisNest - 2
       /\ nestFindAttempts' = 0
       /\ UNCHANGED << femState, m_ToDisperse >>
  ELSE /\ nestFindAttempts' = nestFindAttempts + 1
       /\ IF nestFindAttempts + 1 >= m_OsmiaFindNestAttemptNo
          THEN m_ToDisperse' = TRUE /\ femState' = "Dispersal"
          ELSE UNCHANGED << femState, m_ToDisperse >>
       /\ UNCHANGED << nestIsOpen, m_OurNest, m_EggsThisNest >>

Osmia_Female_SearchNest ==
  /\ femState = "ReproductiveBehaviour"
  /\ m_OurNest = 0 /\ m_EggsToLay > 0
  /\ \E found \in BOOLEAN : FindNestLocation(found)
  /\ UNCHANGED << m_EggsToLay, eggLoad, eggsLaidInLife >>
  /\ FemaleSelf /\ FemaleFrame

\* Osmia_Female::st_Dying: an unfinished nest is closed, then KillThis
Osmia_Female_st_Dying ==
  /\ femState = "Die"
  /\ femState' = "Removed"
  /\ m_CurrentStateNo' = -1
  /\ m_StepDone' = TRUE
  /\ nestIsOpen' = IF m_OurNest # 0
                   THEN [nestIsOpen EXCEPT ![m_OurNest] = FALSE]
                   ELSE nestIsOpen
  /\ UNCHANGED << m_EggsToLay, m_EggsThisNest, m_ToDisperse,
                  nestFindAttempts, m_OurNest, eggLoad, eggsLaidInLife >>
  /\ UNCHANGED << stage, m_CurrentOState, m_Age, m_AgeUnset, m_Mass, inNest >>
  /\ CocoonFields
  /\ FemaleFrame

\* st_ReproductiveBehaviour with an active nest on a day the cell is
\* completed: LayEgg (both counters down by one), then the nest is sealed
\* and left when m_EggsThisNest is 0, and the next nest is planned
Osmia_Female_LayEgg_InNest ==
  /\ femState = "ReproductiveBehaviour"
  /\ m_OurNest # 0
  /\ m_EggsToLay' = m_EggsToLay - 1
  /\ eggsLaidInLife' = eggsLaidInLife + 1
  /\ IF m_EggsThisNest - 1 = 0
     THEN /\ nestIsOpen' = [nestIsOpen EXCEPT ![m_OurNest] = FALSE]
          /\ m_OurNest' = 0
          /\ \E draw \in PlanDraws :
               m_EggsThisNest' =
                 IF m_EggsToLay - 1 > 0
                 THEN PlanEggsPerNest(draw, m_EggsToLay - 1) + 2
                 ELSE 0
     ELSE /\ m_EggsThisNest' = m_EggsThisNest - 1
          /\ UNCHANGED << nestIsOpen, m_OurNest >>
  /\ UNCHANGED << femState, m_ToDisperse, nestFindAttempts, eggLoad >>
  /\ FemaleSelf /\ FemaleFrame

NextFemale ==
  \/ Osmia_Female_Emerge
  \/ Osmia_Female_DailyMortality
  \/ Osmia_Female_st_Dispersal
  \/ Osmia_Female_SearchNest
  \/ Osmia_Female_LayEgg_InNest
  \/ Osmia_Female_st_Dying

SpecFemale == InitFemale /\ [][NextFemale]_vars

(* ------------------------------------------------------------------ *)
(* The forage component on its own: a patch is selected, harvested day  *)
(* by day and given up                                                  *)
(* ------------------------------------------------------------------ *)
\* cfg_OsmiaPollenGiveUpThreshold in 1/100, cfg_OsmiaPollenGiveUpReturn in
\* hundredths of a mg
m_pollengiveupthreshold == 75
m_pollengiveupreturn == 75

\* Pollen of a patch when it is selected and the harvest of one day, in
\* hundredths of a mg
PatchPollens == {1000, 4000}
ForageYields == {50, 75, 125, 1000}

\* Forage has no body in the sources, and its comments leave open what
\* the second give-up test compares with m_pollengiveupreturn, the day's
\* return ("acceptable return rate") or the pollen left in the patch
\* ("absolute level"), and whether a value equal to a threshold gives up
GiveUpReadings == [level : {"return", "patch"}, atThreshold : BOOLEAN]

Below(a, b, r) == IF r.atThreshold THEN a <= b ELSE a < b

\* Forage, the two give-up tests after the harvest under the reading r:
\* the remaining pollen is below the proportion of the level at selection,
\* or the return or absolute level is below the minimum
GiveUp(a_remaining, a_initial, a_return, r) ==
  \/ Below(100 * a_remaining, m_pollengiveupthreshold * a_initial, r)
  \/ Below(IF r.level = "return" THEN a_return ELSE a_remaining,
           m_pollengiveupreturn, r)

InitForage ==
  /\ pc = "forage" /\ TrackedIdle
  /\ m_isOpen = TRUE
  /\ CellsIdle /\ ThreadsIdle /\ PolyIdle /\ GridIdle /\ CfgIdle
  /\ FemIdle /\ ForageIdle

\* Osmia_Female::Forage, one call: without a patch one is selected first;
\* then the patch is harvested and depleted and the give-up tests decide
\* whether she keeps it for the next call
Osmia_Female_Forage ==
  /\ pc = "forage"
  /\ \E p \in PatchPollens, y \in ForageYields, r \in GiveUpReadings :
       LET found == ~m_ForageLoc
           avail == IF found THEN p ELSE patchPollen
           initial == IF found THEN p ELSE patchPollenAtSelection
           got == IF y > avail THEN avail ELSE y
       IN  /\ patchPollenAtSelection' = initial
           /\ patchPollen' = avail - got
           /\ forageReturn' = got
           /\ forageDay' = IF found THEN 1 ELSE forageDay + 1
           /\ m_ForageLoc' = ~GiveUp(avail - got, initial, got, r)
  /\ UNCHANGED << mgrVars, indVars, nestVars, obsVars >>
  /\ UNCHANGED << cellVars, threadVars, polyVars, gridVars, cfgVars,
                  femVars >>

NextForage == Osmia_Female_Forage

SpecForage == InitForage /\ [][NextForage]_vars

(* ------------------------------------------------------------------ *)
(* The day's shared values, mass, sex and the order of the stages      *)
(* ------------------------------------------------------------------ *)
\* The values DoFirst publishes for the day
DayScalars == << m_TempToday, m_FlyingWeather, m_PrePupalDevelDaysToday >>
\* The seasonal flags DoLast maintains
SeasonFlags == << m_PreWinteringEndFlag, m_OverWinterEndFlag >>
\* What a Step of the individual can change
StepState == << stage, m_CurrentOState, m_CurrentStateNo, m_Age, m_AgeUnset,
                m_AgeDegrees, m_AgeDegreesLow,
                m_DDPrewinter, m_emergencecounter, m_Sex,
                m_Mass, m_ParasitoidStatus, m_myOsmiaPrepupaDevelTotalDays >>

\* C21: every day the temperature, the foraging hours and the prepupal
\* rate are written together, from the same weather, before any Step of
\* that day; they and the seasonal flags stay as they are while Steps
\* run, the flags changing only once every individual has finished; and
\* no individual steps while the manager is between two days.
C21_DayValuesFixedDuringSteps ==
  /\ [](pc = "step" =>
          /\ unassigned = {}
          /\ m_FlyingWeather = GetFlyingHours(m_TempToday)
          /\ m_PrePupalDevelDaysToday
                = m_PrePupalDevelRates[PrePupalTempIndex(m_TempToday) + 1])
  /\ [][ /\ DayScalars' # DayScalars => pc = "first" /\ pc' = "step"
         /\ SeasonFlags' # SeasonFlags =>
               pc = "step" /\ pc' = "first" /\ (m_StepDone \/ ~Alive)
         /\ StepState' # StepState =>
               /\ pc = "step" /\ pc' = "step"
               /\ DayScalars' = DayScalars /\ SeasonFlags' = SeasonFlags
       ]_vars

\* An eclosed adult has finished its Step on a warm day of the spring
\* after the autumn in which DoLast raised the pre-wintering flag
C21_Witness ==
  /\ pc = "step" /\ m_StepDone /\ Alive
  /\ year = 1 /\ m_PreWinteringEndFlag /\ m_OverWinterEndFlag
  /\ m_FlyingWeather = 8 /\ m_ParasitoidStatus # "Unparasitised"

\* A call of Osmia_InCocoon::st_Emerge
EmergeCalled == emergeCalls' = emergeCalls + 1

\* C22: an Osmia_Female appears only out of st_Emerge of an overwintering
\* adult that is female and unparasitised; st_Emerge of a male kills the
\* cocoon object and creates nothing; st_Emerge of a parasitised
\* individual creates nothing and leaves it dying or killed.
C22_FemaleOnlyFromUnparasitisedFemale ==
  /\ [](stage = "Female" => m_Sex /\ m_ParasitoidStatus = "Unparasitised")
  /\ [][ /\ stage' = "Female" /\ stage # "Female" =>
               /\ EmergeCalled /\ stage = "InCocoon"
               /\ m_Sex /\ m_ParasitoidStatus = "Unparasitised"
         /\ EmergeCalled /\ ~m_Sex =>
               stage' = stage /\ ~Alive' /\ ~inNest'
         /\ EmergeCalled /\ m_ParasitoidStatus # "Unparasitised" =>
               stage' = stage /\ (m_CurrentOState' = "Die" \/ ~Alive')
       ]_vars

\* An eclosed, unparasitised female has emerged as an Osmia_Female
C22_Witness ==
  /\ stage = "Female" /\ emergeCalls = 1 /\ m_Age = 0
  /\ m_Mass \in {FemaleMassFromProvMass(m) : m \in ProvisionMasses}

\* Cases of C22 that are reached as well: a male discarded, a parasitised
\* female sent to Die
C22_MaleDiscarded ==
  emergeCalls = 1 /\ ~m_Sex /\ ~Alive /\ m_CurrentOState = "Emerged"
C22_ParasitisedDies ==
  emergeCalls = 1 /\ m_Sex /\ m_ParasitoidStatus # "Unparasitised"
    /\ m_CurrentOState = "Die"

\* The creation of the Osmia_Female out of the cocoon
FemaleCreated == stage = "InCocoon" /\ stage' = "Female"

\* C23: the mass of an individual is converted from provision mass to
\* adult mass only in the step that creates the Osmia_Female out of the
\* overwintering adult, and the Female's mass is then slope * mass + const
\* of the cocoon's mass; no step converts it a second time.
C23_MassConvertedOnceAtEmergence ==
  [][ /\ m_Mass' # m_Mass => FemaleCreated
      /\ FemaleCreated =>
            100 * (m_Mass' - m_OsmiaFemaleMassFromProvMassConst)
              = m_OsmiaFemaleMassFromProvMassSlope * m_Mass
      /\ stage = "Female" => m_Mass' = m_Mass
    ]_vars

\* The lightest seeded cocoon has emerged as a Female of the smallest
\* configured adult mass
C23_Witness ==
  /\ stage = "Female" /\ emergeCalls = 1
  /\ m_Mass = cfg_OsmiaFemaleMassMin

\* C24: from the creation of the Egg to the end of its life as
\* overwintering adult the mass of an individual stays the one it was laid
\* with: every metamorphosis hands the predecessor's mass to the successor
\* and no Step within a stage changes it.
C24_MassCarriedThroughMetamorphosis ==
  [][ stage' # "Female" => m_Mass' = m_Mass ]_vars

\* An overwintering adult that was laid as an egg with 300 mg of provision
C24_Witness ==
  /\ stage = "InCocoon" /\ m_CurrentOState = "Develop"
  /\ m_Mass = 30000 /\ m_PreWinteringEndFlag

\* C25: the sex given to the Egg is the sex of every later stage and the
\* one st_Emerge decides on: no step changes it.
C25_SexNeverChanges ==
  [][ m_Sex' = m_Sex ]_vars

\* A male followed from the egg has been discarded by st_Emerge
C25_Witness ==
  /\ ~m_Sex /\ emergeCalls = 1 /\ ~Alive /\ stage = "InCocoon"
  /\ m_Age > 0

\* The order of the life stages
StageSuccession ==
  { << "Egg", "Larva" >>, << "Larva", "Prepupa" >>, << "Prepupa", "Pupa" >>,
    << "Pupa", "InCocoon" >>, << "InCocoon", "Female" >> }

\* C26: whenever the individual changes stage it becomes the immediate
\* successor of the stage it was in, so an egg is a Larva, a Prepupa, a
\* Pupa and an overwintering adult, in that order and each once, before
\* it is a Female.
C26_StagesInOrder ==
  [][ stage' # stage => << stage, stage' >> \in StageSuccession ]_vars

\* A Female that was laid as an egg the summer before
C26_Witness ==
  /\ stage = "Female" /\ year = 1 /\ emergeCalls = 1
  /\ simDay > MaxDevDays

\* The temperature threshold of the degree-day sum a stage accumulates in
\* m_AgeDegrees (the Prepupa counts days, not degree-days)
StageThreshold ==
  CASE stage = "Egg" -> m_OsmiaEggDevelThreshold
    [] stage = "Larva" -> m_OsmiaLarvaDevelThreshold
    [] stage = "Pupa" -> m_OsmiaPupaDevelThreshold
    [] OTHER -> m_OsmiaInCocoonOverwinteringTempThreshold

\* C27: while the individual stays in its stage neither its degree-day sum
\* m_AgeDegrees nor the cocoon's pre-wintering sum m_DDPrewinter ever
\* decreases, and on a day whose temperature is not above the threshold
\* of the sum the sum stays exactly as it was.
C27_DegreeDaysNeverDecrease ==
  [][ stage' = stage =>
        /\ m_AgeDegrees' >= m_AgeDegrees
        /\ m_DDPrewinter' >= m_DDPrewinter
        /\ stage # "Prepupa" /\ m_TempToday <= StageThreshold =>
              m_AgeDegrees' = m_AgeDegrees
        /\ m_TempToday <= m_OsmiaInCocoonPrewinteringTempThreshold =>
              m_DDPrewinter' = m_DDPrewinter
    ]_vars

\* A cocoon that gathered pre-wintering degree-days in late summer has
\* taken its Step on the first cold day, which added nothing
C27_Witness ==
  /\ stage = "InCocoon" /\ ~m_PreWinteringEndFlag
  /\ today = CoolingDay /\ m_TempToday = -20
  /\ pc = "step" /\ m_StepDone /\ developsToday = 1
  /\ m_DDPrewinter > 0

\* A day of development of a Prepupa that survives it
PrepupaDevelops ==
  /\ stage = "Prepupa" /\ stage' = "Prepupa"
  /\ m_CurrentOState = "Develop" /\ m_Age' = m_Age + 1

\* C28: on each day a Prepupa develops, its day counter m_AgeDegrees
\* grows by exactly the day's prepupal development rate and by nothing
\* else, and the Prepupa goes to pupation on the first day the counter is
\* above its own target m_myOsmiaPrepupaDevelTotalDays.
C28_PrepupaCounterGrowsByRate ==
  [][ PrepupaDevelops =>
        /\ (m_AgeDegrees' - m_AgeDegrees) * 100000
              + (m_AgeDegreesLow' - m_AgeDegreesLow)
              = m_PrePupalDevelDaysToday
        /\ m_CurrentOState' = "NextStage"
              <=> \/ m_AgeDegrees' > m_myOsmiaPrepupaDevelTotalDays
                  \/ /\ m_AgeDegrees' = m_myOsmiaPrepupaDevelTotalDays
                     /\ m_AgeDegreesLow' > 0
    ]_vars

\* A day of development of an Egg that survives it
EggDevelops ==
  /\ stage = "Egg" /\ m_CurrentOState = "Develop"
  /\ m_Age' = m_Age + 1

\* C29: an Egg goes to hatching on the day its degree-day sum is greater
\* than or equal to the total requirement; in particular an Egg whose sum
\* is exactly the requirement after the day's addition goes to hatching
\* that day.
C29_EggHatchesAtTotal ==
  [][ EggDevelops /\ m_AgeDegrees' >= m_OsmiaEggDevelTotalDD =>
        m_CurrentOState' = "NextStage" ]_vars

\* What development, metamorphosis and emergence write
LifeProgress ==
  << stage, m_Age, m_AgeUnset, m_AgeDegrees, m_AgeDegreesLow, m_DDPrewinter,
     m_emergencecounter, m_Mass, m_Sex, m_ParasitoidStatus, bornDay, emergeCalls,
     wmTests, readyCount, counterSets >>

\* A Step of the individual, as opposed to the manager's DoFirst and
\* DoLast
StepTaken == pc = "step" /\ pc' = "step" /\ m_StepDone' # m_StepDone

\* C30: once the state of an individual is Die it stays Die; the
\* individual neither develops nor metamorphoses nor emerges any more,
\* and the next Step that processes it kills it and takes it out of its
\* nest.
C30_DeathIsFinal ==
  [][ m_CurrentOState = "Die" =>
        /\ m_CurrentOState' = "Die"
        /\ LifeProgress' = LifeProgress
        /\ developsToday' \in {0, developsToday}
        /\ mortTestsToday' \in {0, mortTestsToday}
        /\ ~Alive => ~Alive'
        /\ Alive /\ StepTaken => ~Alive' /\ ~inNest'
    ]_vars

\* A Prepupa that failed its daily mortality test has been killed by the
\* Step of the following day
C30_Witness ==
  /\ stage = "Prepupa" /\ m_CurrentOState = "Die"
  /\ ~Alive /\ ~inNest /\ m_StepDone
  /\ developsToday = 0

\* Step gets past its first line: the object is live and has not
\* finished the day
StepProcesses ==
  pc = "step" /\ Alive /\ ~m_StepDone /\ stage \in InNestStages

\* C31: when Step processes a live individual whose state is none of the
\* states its switch handles, the process is ended: nothing of the
\* individual changes and the simulation takes no further step.
C31_UnknownStateEndsProcess ==
  [][ /\ StepProcesses /\ m_CurrentOState \notin HandledStates =>
          pc' = "exit" /\ indVars' = indVars /\ nestVars' = nestVars
      /\ pc # "exit"
    ]_vars

\* The process has ended on a Larva found in state Disperse
C31_Witness ==
  pc = "exit" /\ stage = "Larva" /\ m_CurrentOState = "Disperse"
    /\ Alive /\ ~m_StepDone

\* C32: the static parameters (totals, thresholds, mortalities, mass
\* coefficients, the rate table) are written only while the manager is
\* being constructed, before the first day begins; from the first day on
\* they hold their configured values and no step changes them
C32_ParametersWrittenOnlyAtInit ==
  /\ [](pc \in {"first", "step"} => staticParams = ConfiguredParams)
  /\ [][ staticParams' # staticParams =>
           pc \in {"ctor_init", "ctor_rates"} /\ simDay = 0 ]_vars
C32_Witness ==
  /\ pc = "step" /\ simDay = MaxCtorDays /\ developsToday > 0
  /\ staticParams = ConfiguredParams
  /\ staticParams # StaticDefaults

(* ------------------------------------------------------------------ *)
(* The adult female: nests, nest search and egg load                    *)
(* ------------------------------------------------------------------ *)
\* The nests the female claimed are open only while she lives and has
\* them as her active nest
FemaleNestsSealed ==
  \A n \in DOMAIN nestIsOpen :
     nestIsOpen[n] => femState \in LiveFemaleStates /\ m_OurNest = n

\* C33: no nest is open without a live female provisioning it: a nest a
\* female claimed is closed when she completes it or dies, and the nest
\* of the seeded cocoon, which no female provisions, is not open
C33_NoOpenNestWithoutLiveFemale ==
  /\ FemaleNestsSealed
  /\ ~m_isOpen

\* The female is searching locally for a nest
SearchingLocally == femState = "ReproductiveBehaviour" /\ m_OurNest = 0

\* C34: a searching female never has more than the configured number of
\* failed attempts; every failed attempt adds one to her counter; the
\* failure that reaches the limit sets m_ToDisperse and sends her to
\* long-distance dispersal, so no local attempt is made beyond the limit
C34_NestSearchBounded ==
  /\ [](nestFindAttempts <= m_OsmiaFindNestAttemptNo)
  /\ [](SearchingLocally => nestFindAttempts < m_OsmiaFindNestAttemptNo)
  /\ [][ SearchingLocally /\ m_OurNest' = 0 /\ femState' # "Die" =>
           /\ nestFindAttempts' = nestFindAttempts + 1
           /\ IF nestFindAttempts' >= m_OsmiaFindNestAttemptNo
              THEN femState' = "Dispersal" /\ m_ToDisperse'
              ELSE femState' = "ReproductiveBehaviour"
       ]_vars
C34_Witness ==
  /\ femState = "Dispersal" /\ m_ToDisperse
  /\ nestFindAttempts = m_OsmiaFindNestAttemptNo
  /\ eggsLaidInLife > 0

\* C38: the eggs a female has laid never exceed the egg load computed at
\* her emergence and her remaining egg counter is never negative; laid and
\* remaining eggs always add up to that load, also in a nest whose plan
\* was cut down to the eggs she had left
C38_EggsLaidWithinLoad ==
  /\ m_EggsToLay >= 0
  /\ eggsLaidInLife <= eggLoad
  /\ eggsLaidInLife + m_EggsToLay = eggLoad
C38_Witness ==
  /\ femState = "ReproductiveBehaviour" /\ m_OurNest # 0
  /\ m_EggsToLay \in 1 .. m_OsmiaFemaleMinEggsPerNest - 1
  /\ m_EggsThisNest = m_EggsToLay
  /\ eggsLaidInLife > 0

(* ------------------------------------------------------------------ *)
(* The occupants of a nest and its cell list                            *)
(* ------------------------------------------------------------------ *)
\* The cells of the nest that hold the object i
CellsOf(i) == {k \in 1 .. Len(m_cells) : m_cells[k] = i}

\* C36 (as stated): at every moment every live egg, larva, prepupa, pupa
\* and cocoon of the nest is held by exactly one cell of the nest's cell
\* list
C36_LiveOccupantInOneCell ==
  \A i \in ObjectIds :
     objStage[i] \in InNestStages => Cardinality(CellsOf(i)) = 1

\* The objects a running Step has constructed and CreateObjects has not
\* yet put into the cell list, and the callers whose successor CreateObjects
\* has put into their cell and whose KillThis() is still to come
BetweenCells ==
  {tobj[u].new : u \in {v \in Threads :
                           tpc[v] \in {"AddEgg", "ReplaceNestPointer"}}}
  \cup {tobj[u].obj : u \in {v \in Threads :
                           /\ tpc[v] = "KillThis"
                           /\ tobj[v].op = "ReplaceNestPointer"}}

\* C36 (amended): every live egg, larva, prepupa, pupa and cocoon of the
\* nest is held by exactly one cell of the nest's cell list, except an
\* object just constructed, until the CreateObjects call that constructed it
\* has put it into the list, and the caller of a metamorphosis, from
\* ReplaceNestPointer until its KillThis(); these are held by no cell
C36_SettledOccupantInOneCell ==
  \A i \in ObjectIds :
     objStage[i] \in InNestStages =>
        Cardinality(CellsOf(i)) = IF i \in BetweenCells THEN 0 ELSE 1
C36_Witness ==
  /\ Len(m_cells) = 2
  /\ \A t \in Threads : tpc[t] = "idle"
  /\ \E i, j \in ObjectIds :
        /\ objStage[i] = "InCocoon" /\ objStage[j] = "Larva"
        /\ lastOp.op = "Metamorphosis" /\ lastOp.new = i
        /\ m_cells = << i, j >>
  /\ \E d \in ObjectIds : objStage[d] = "killed"

\* The objects constructed by a step
CreatedBy == {n \in ObjectIds : objStage[n] = "none" /\ objStage'[n] # "none"}

\* C37: a killed object stays killed, and a later Step on it changes
\* neither the objects nor the nest; a successor is constructed only at the
\* start of the Step of a live occupant on which no other Step is running,
\* one successor at most, and every Step of an occupant that makes a nest
\* operation returns with the occupant killed, so no object ever has two
\* successors
C37_KilledObjectsAreInert ==
  [][ /\ \A i \in ObjectIds :
           objStage[i] = "killed" => objStage'[i] = "killed"
      /\ (lastOp' # lastOp /\ lastOp'.op = "StepKilled") =>
           /\ objStage[lastOp'.old] = "killed"
           /\ objStage' = objStage /\ m_cells' = m_cells
           /\ m_isOpen' = m_isOpen /\ eggsLaid' = eggsLaid
           /\ tpc' = tpc /\ tobj' = tobj
      /\ Cardinality(CreatedBy) <= 1
      /\ \A n \in CreatedBy :
           objStage'[n] # "Egg" =>
             \E t \in Threads :
                /\ tobj[t] = NoTask /\ tobj'[t].new = n
                /\ objStage[tobj'[t].obj] \in InNestStages
                /\ tobj'[t].obj \notin BeingStepped
      /\ \A t \in Threads :
           (tobj[t].obj # 0 /\ tobj'[t] = NoTask)
              => objStage'[tobj[t].obj] = "killed"
    ]_vars
C37_Witness ==
  /\ lastOp.op = "StepKilled"
  /\ objStage[lastOp.old] = "killed"
  /\ \E n \in ObjectIds : objStage[n] = "Prepupa" /\ n \in Range(m_cells)
  /\ Cardinality({d \in ObjectIds : objStage[d] = "killed"}) >= 2

\* C39: the cell of the female density grid never holds a negative count,
\* however the daily reset and the adding and removing of females by the
\* worker threads interleave, as long as only females that were added
\* since the last reset are removed
C39_GridNeverNegative ==
  (\A t \in Threads : ~tobj[t].unpaired) => m_FemaleDensityGrid >= 0

====
